---------------------------- MODULE Spec2Model ----------------------------
(***************************************************************************)
(* The streaming voxel render engine (class ThreeManager, the version with *)
(* chunks, LOD levels and housekeeping: src/unnamed/part_002 lines         *)
(* 66-1090) as a state machine.                                            *)
(*                                                                         *)
(* Geometry.  Every voxel the model feeds lies on the diagonal x = y = z,  *)
(* so a voxel is the integer t of (t,t,t) and its key is the string        *)
(* "t,t,t", written here as the integer t.  The camera starts on that      *)
(* diagonal (30,30,30), its offset is (30,30,30) and its orbit target is   *)
(* (0,0,0), so every camera operation of the engine keeps it on the        *)
(* diagonal as well.  The Euclidean distance between two diagonal points   *)
(* a and b is sqrt(3)*|a-b|, so "distance < T" is 3*(a-b)^2 < T^2, exact   *)
(* in integers.  Camera coordinates are fixed-point numbers in units of    *)
(* 1/FP; voxel coordinates are whole units.                                *)
(*                                                                         *)
(* GPU-side buffers (instance matrices, point positions, draw ranges) are  *)
(* not part of the state: only the index bookkeeping that decides which    *)
(* slot a record refers to is.                                             *)
(***************************************************************************)
EXTENDS Integers, Sequences, FiniteSets, TLC

\* ------------------------------------------------------------------ bounds

\* Resolution of the fixed-point camera coordinates (units per world unit).
FP == 20
\* Scaled stand-ins of the engine's ceilings (1000, 200, 8000, 300 in the
\* source: part_002 lines 397, 562, 399, 395); the model is parametric in them.
\* As in the source, making room in the queue drops more entries than the
\* one it makes room for, and the queue is no longer than the voxel ceiling.
MAX_QUEUE_SIZE == 2
QUEUE_DROP == 2
MAX_TOTAL_VOXELS == 2
BATCH_SIZE == 1
\* Scaled stand-in of the capacity of an InstancedMesh (4096 in the source,
\* part_002 line 71).
MAX_INSTANCES_PER_CHUNK == 2

\* --------------------------------------------------------------- constants

CHUNK_SIZE == 16
HIGH == 0
MEDIUM == 1
LOW == 2
CULLED == 3
LOD_DISTANCES == <<225, 600, 1200>>
FRAME_BUDGET_MS == 14
CLEANUP_DISTANCE == 2000
CLEANUP_INTERVAL_MS == 5000
DEFAULT_OFFSET == 30

VoxelStates == {"WALKABLE", "PASSABLE", "WALL", "UNKNOWN", "CURRENT_POSITION", "CURRENT_TARGET"}
RenderLODs == {HIGH, MEDIUM, LOW}

\* The "null" of `VoxelData | null` and of `string | null`.
NULL == [state |-> "null", x |-> 0]
NOKEY == -999

\* ------------------------------------------------------------ input bounds

\* Voxel positions fed to the engine: two in chunk 0 (HIGH detail seen from
\* the initial camera) and one in chunk 12 (MEDIUM detail).
Keys == {0, 1, 200}
\* The states the feed lets through (useVoxelStream.ts line 175), per
\* position: the agent starts at 0, which it may stand on, and heads for 200.
FeedStates(key) ==
  IF key = 0 THEN {"WALKABLE", "CURRENT_POSITION"}
  ELSE IF key = 200 THEN {"CURRENT_TARGET"}
  ELSE {"WALKABLE"}
\* Cost in ms of one processVoxelUpdate as measured by performance.now().
ItemCosts == {0, FRAME_BUDGET_MS, 2 * FRAME_BUDGET_MS}
\* Time between two frames.
TickDurations == {CLEANUP_INTERVAL_MS \div 2, CLEANUP_INTERVAL_MS}
\* Where a user pan can put the orbit target (world units along the
\* diagonal): out of sight of every voxel of the feed.
PanOffsets == {1200}
\* Camera positions and voxels for calculateLODLevel anywhere in space: the
\* voxels lie at, next below and next above each of LOD_DISTANCES from the
\* origin, on the x axis and off it ((135, 180, 0) is 225 units away, (360,
\* 480, 0) is 600, (720, 960, 0) is 1200).
LODCameras == {[x |-> 0, y |-> 0, z |-> 0], [x |-> 30, y |-> 30, z |-> 30]}
LODVoxels ==
  {[x |-> p[1], y |-> p[2], z |-> 0, state |-> st] :
     p \in ({0, 224, 225, 226, 599, 600, 601, 1199, 1200, 1201, 3000} \X {0})
             \cup {<<135, 180>>, <<360, 480>>, <<720, 960>>},
     st \in VoxelStates}

\* Orbit targets around the two distances of the housekeeping: with the
\* camera 30 units off the target on each axis, target 662 puts the voxels
\* at 0 and 1 just inside the last of LOD_DISTANCES (1198.6 and 1196.8 units
\* away), target 1125 puts CLEANUP_DISTANCE between them (2000.5 and 1998.8).
FarOffsets == {662, 1125}
\* Orbit targets that leave the voxels next to the origin in sight: with the
\* camera 30 units off the target on each axis they are 52 and 398 units
\* away, below and above the first of LOD_DISTANCES.
NearOffsets == {0, 200}

\* ------------------------------------------------------------------- state

VARIABLES
  chunks,                  \* Map<string, VoxelChunk>, in insertion order
  voxelUpdateQueue,        \* Array<{key, voxelData}>
  queuedKeys,              \* Set<string>
  isProcessingBatch,
  currentPositionKey,
  currentTargetKey,
  cameraFollowTarget,      \* world units
  isFollowingEnabled,
  cameraOffset,            \* world units
  userControlledCamera,
  isAutomaticallyMovingCamera,
  cameraPosition,          \* camera.position, 1/FP units
  controlsTarget,          \* controls.target, 1/FP units
  lastCameraPosition,
  lastControlsTarget,
  needsRender,
  isUserInteracting,
  sinceCleanup,            \* performance.now() - lastCleanupTime, saturating
  animationId,             \* TRUE once requestAnimationFrame returned a handle
  pendingFrame,            \* TRUE while the browser holds a frame request
  listeners,               \* the dblclick and resize listeners registered
  boundFunctions,          \* function objects made by .bind(this) so far
  trace                    \* history variable: what the last handler did

vars == <<chunks, voxelUpdateQueue, queuedKeys, isProcessingBatch,
          currentPositionKey, currentTargetKey, cameraFollowTarget,
          isFollowingEnabled, cameraOffset, userControlledCamera,
          isAutomaticallyMovingCamera, cameraPosition, controlsTarget,
          lastCameraPosition, lastControlsTarget, needsRender,
          isUserInteracting, sinceCleanup, animationId, pendingFrame,
          listeners, boundFunctions, trace>>

\* The history a handler starts from.  The first fields are about the
\* handler that ran last; map, skipped, evicted, lost, rewritten, fed, feeds,
\* disposed and cleared outlive it.
NoLog(op) ==
  [op |-> op,
   applied |-> <<>>,       \* processVoxelUpdate calls, see LogApplied
   outcomes |-> {},        \* the same calls without key and order
   calls |-> <<>>,         \* addToQueue calls, see LogCall
   drainFrom |-> <<>>,     \* the queue when the drain started
   cost |-> 0,             \* ms per processVoxelUpdate of the drain
   pops |-> <<>>,          \* ms since the drain started, at each queue pop
   cleaned |-> {},         \* records removed by performPeriodicCleanup
   limited |-> {},         \* records removed by enforceVoxelLimit
   excess |-> 0,           \* excessVoxels of enforceVoxelLimit
   map |-> {},             \* keys of the map of the last updateVoxels call
   skipped |-> {},         \* keys of that map updateVoxels culled
   evicted |-> {},         \* keys housekeeping removed since that call
   lost |-> {},            \* keys whose entry addToQueue dropped since then
   rewritten |-> {},       \* queued keys whose entry got other data
   fed |-> <<>>,           \* the map of the last updateVoxels call
   changed |-> {},         \* keys whose record that call changed
   feeds |-> 0,            \* updateVoxels calls so far, counted up to 2
   slots |-> {},           \* instance indices the handler's updates were given
   threw |-> FALSE,        \* an exception escaped the handler
   disposed |-> FALSE,     \* dispose() has returned
   cleared |-> 0,          \* queue entries and chunks dispose() dropped
   cameraMoved |-> FALSE,  \* the handler changed camera position or orbit target
   moves |-> {},           \* updates of a live record, see Reprocessed
   classified |-> {},      \* calculateLODLevel calls: camera, voxel, result
   rendered |-> FALSE,     \* animate called renderer.render
   sinceSweep |-> <<>>,    \* ms since performPeriodicCleanup last passed its
                           \* time check, up to the interval; <<>>: never
   sinceCut |-> <<>>,      \* ms since enforceVoxelLimit last removed voxels
   sweptAfter |-> <<>>,    \* <<sinceSweep>> when this animate's cleanup ran
   cutAfter |-> <<>>,      \* <<sinceCut>> when this animate's limit pass removed
   steps |-> <<>>]         \* the steps of animate, in the order they started

\* The processVoxelUpdate calls of a history as a set of (state, LOD level,
\* live before, live after).
Outcomes(applied) ==
  {[state |-> applied[i].voxelData.state, lod |-> applied[i].lod,
    had |-> applied[i].had, has |-> applied[i].has] : i \in 1..Len(applied)}

\* The calls of a history with their arguments alone.
Arguments(calls) ==
  [i \in DOMAIN calls |-> [key |-> calls[i].key, voxelData |-> calls[i].voxelData]]

\* What one specification keeps of a handler's history: "frame" the
\* housekeeping and the outcomes of the updates, "queue" the queue traffic,
\* "feed" the last map and what became of its keys, "sync" the last map and
\* what updateVoxels applied and queued of it, "follow" the map of the
\* updateVoxels call that has just returned, "slots" the instance
\* indices handed out, "life" exceptions and disposal, "upsert" the
\* updates of live records, "drain" the number of feeds and what a drain
\* found and applied, "op" the handler's name.
Summary(mode, log) ==
  IF mode = "frame"
  THEN [NoLog(log.op) EXCEPT !.cleaned = log.cleaned, !.limited = log.limited,
                             !.excess = log.excess,
                             !.outcomes = Outcomes(log.applied),
                             !.rendered = log.rendered]
  ELSE IF mode = "queue"
  THEN [NoLog(log.op) EXCEPT !.applied = log.applied, !.calls = log.calls,
                             !.drainFrom = log.drainFrom, !.cost = log.cost,
                             !.pops = log.pops, !.rewritten = log.rewritten,
                             !.rendered = log.rendered]
  ELSE IF mode = "feed"
  THEN [NoLog(log.op) EXCEPT !.map = log.map, !.skipped = log.skipped,
                             !.evicted = log.evicted, !.lost = log.lost,
                             !.feeds = log.feeds,
                             !.sinceSweep = log.sinceSweep, !.sinceCut = log.sinceCut,
                             !.sweptAfter = log.sweptAfter, !.cutAfter = log.cutAfter]
  ELSE IF mode = "sync"
  THEN IF log.op = "updateVoxels"
       THEN [NoLog(log.op) EXCEPT !.applied = Arguments(log.applied),
                                  !.calls = Arguments(log.calls),
                                  !.fed = log.fed, !.skipped = log.skipped,
                                  !.changed = log.changed]
       ELSE [NoLog(log.op) EXCEPT !.fed = log.fed]
  ELSE IF mode = "follow"
  THEN [NoLog(log.op) EXCEPT !.fed = IF log.op = "updateVoxels" THEN log.fed ELSE <<>>,
                             !.cameraMoved = log.cameraMoved,
                             !.steps = log.steps]
  ELSE IF mode = "slots"
  THEN [NoLog(log.op) EXCEPT !.slots = log.slots]
  ELSE IF mode = "life"
  THEN [NoLog(log.op) EXCEPT !.threw = log.threw, !.disposed = log.disposed,
                             !.cleared = log.cleared]
  ELSE IF mode = "drain"
  THEN [NoLog(log.op) EXCEPT !.feeds = log.feeds, !.drainFrom = log.drainFrom,
                             !.applied = Arguments(log.applied)]
  ELSE IF mode = "upsert"
  THEN [NoLog(log.op) EXCEPT !.moves = log.moves]
  ELSE NoLog(log.op)

\* The ThreeManager instance as one value, for the handlers written as
\* operators from instance to instance.
Self ==
  [chunks |-> chunks, voxelUpdateQueue |-> voxelUpdateQueue,
   queuedKeys |-> queuedKeys, isProcessingBatch |-> isProcessingBatch,
   currentPositionKey |-> currentPositionKey,
   currentTargetKey |-> currentTargetKey,
   cameraFollowTarget |-> cameraFollowTarget,
   isFollowingEnabled |-> isFollowingEnabled, cameraOffset |-> cameraOffset,
   userControlledCamera |-> userControlledCamera,
   isAutomaticallyMovingCamera |-> isAutomaticallyMovingCamera,
   cameraPosition |-> cameraPosition, controlsTarget |-> controlsTarget,
   lastCameraPosition |-> lastCameraPosition,
   lastControlsTarget |-> lastControlsTarget, needsRender |-> needsRender,
   isUserInteracting |-> isUserInteracting, sinceCleanup |-> sinceCleanup,
   animationId |-> animationId, pendingFrame |-> pendingFrame,
   listeners |-> listeners, boundFunctions |-> boundFunctions, log |-> trace]

Commit(m, mode) ==
  /\ chunks' = m.chunks
  /\ voxelUpdateQueue' = m.voxelUpdateQueue
  /\ queuedKeys' = m.queuedKeys
  /\ isProcessingBatch' = m.isProcessingBatch
  /\ currentPositionKey' = m.currentPositionKey
  /\ currentTargetKey' = m.currentTargetKey
  /\ cameraFollowTarget' = m.cameraFollowTarget
  /\ isFollowingEnabled' = m.isFollowingEnabled
  /\ cameraOffset' = m.cameraOffset
  /\ userControlledCamera' = m.userControlledCamera
  /\ isAutomaticallyMovingCamera' = m.isAutomaticallyMovingCamera
  /\ cameraPosition' = m.cameraPosition
  /\ controlsTarget' = m.controlsTarget
  /\ lastCameraPosition' = m.lastCameraPosition
  /\ lastControlsTarget' = m.lastControlsTarget
  /\ needsRender' = m.needsRender
  /\ isUserInteracting' = m.isUserInteracting
  /\ sinceCleanup' = m.sinceCleanup
  /\ animationId' = m.animationId
  /\ pendingFrame' = m.pendingFrame
  /\ listeners' = m.listeners
  /\ boundFunctions' = m.boundFunctions
  /\ trace' = Summary(mode, m.log)

\* A handler starts a new history, keeping what outlives a handler.
StartLog(m, op) ==
  [m EXCEPT !.log = [NoLog(op) EXCEPT !.map = m.log.map,
                                      !.skipped = m.log.skipped,
                                      !.evicted = m.log.evicted,
                                      !.lost = m.log.lost,
                                      !.rewritten = m.log.rewritten,
                                      !.fed = m.log.fed,
                                      !.feeds = m.log.feeds,
                                      !.disposed = m.log.disposed,
                                      !.sinceSweep = m.log.sinceSweep,
                                      !.sinceCut = m.log.sinceCut,
                                      !.cleared = m.log.cleared]]

\* History of animate: the step that starts.
Stepped(m, step) == [m EXCEPT !.log.steps = Append(@, step)]

\* ----------------------------------------------------------- sequences

Front(s) == SubSeq(s, 1, Len(s) - 1)
Last(s) == s[Len(s)]
Range(s) == {s[i] : i \in 1..Len(s)}
Abs(v) == IF v < 0 THEN -v ELSE v

RECURSIVE Concat(_)
Concat(ss) == IF ss = <<>> THEN <<>> ELSE Head(ss) \o Concat(Tail(ss))

\* ------------------------------------------------- coordinates and LOD

\* A variant that rounds toward zero, like a cast to int.
TruncatedCoords(x) ==
  IF x < 0 THEN 0 - ((0 - x) \div CHUNK_SIZE) ELSE x \div CHUNK_SIZE

\* Math.floor(c / CHUNK_SIZE) on each axis; the three axes agree on the diagonal.
getChunkCoords(x) == x \div CHUNK_SIZE

\* key.split(',').map(Number): the coordinates a key names.
parseKey(key) == key

\* camera.position.distanceTo(voxel) < limit, the camera in 1/FP units.
DistanceLess(camera, x, limit) ==
  LET d == camera - x * FP IN 3 * d * d < (limit * FP) * (limit * FP)

DistanceGreater(camera, x, limit) ==
  LET d == camera - x * FP IN 3 * d * d > (limit * FP) * (limit * FP)

\* A variant that forgets the target voxel.
OnlyPositionCritical(state) == state = "CURRENT_POSITION"

\* The states a chunk has buckets for: Object.keys(this.materials).
KnownState(state) == state \in VoxelStates

IsCritical(state) == state = "CURRENT_POSITION" \/ state = "CURRENT_TARGET"

\* Square of camera.position.distanceTo(new THREE.Vector3(x, y, z)).
DistanceToSquared(camera, voxelData) ==
  (camera.x - voxelData.x) * (camera.x - voxelData.x)
  + (camera.y - voxelData.y) * (camera.y - voxelData.y)
  + (camera.z - voxelData.z) * (camera.z - voxelData.z)

\* A variant whose bands include their upper threshold.
InclusiveBands(camera, voxelData) ==
  IF IsCritical(voxelData.state) THEN HIGH
  ELSE IF DistanceToSquared(camera, voxelData) <= LOD_DISTANCES[1] * LOD_DISTANCES[1] THEN HIGH
  ELSE IF DistanceToSquared(camera, voxelData) <= LOD_DISTANCES[2] * LOD_DISTANCES[2] THEN MEDIUM
  ELSE IF DistanceToSquared(camera, voxelData) <= LOD_DISTANCES[3] * LOD_DISTANCES[3] THEN LOW
  ELSE CULLED

\* calculateLODLevel for a camera and a voxel anywhere in space, in world
\* units: the distance is below a threshold when its square is below the
\* threshold's.
calculateLODLevelAt(camera, voxelData) ==
  IF IsCritical(voxelData.state) THEN HIGH
  ELSE IF DistanceToSquared(camera, voxelData) < LOD_DISTANCES[1] * LOD_DISTANCES[1] THEN HIGH
  ELSE IF DistanceToSquared(camera, voxelData) < LOD_DISTANCES[2] * LOD_DISTANCES[2] THEN MEDIUM
  ELSE IF DistanceToSquared(camera, voxelData) < LOD_DISTANCES[3] * LOD_DISTANCES[3] THEN LOW
  ELSE CULLED

\* calculateLODLevel with camera and voxel on the diagonal, the camera in
\* fixed point.
calculateLODLevel(m, voxelData) ==
  IF IsCritical(voxelData.state) THEN HIGH
  ELSE IF DistanceLess(m.cameraPosition, voxelData.x, LOD_DISTANCES[1]) THEN HIGH
  ELSE IF DistanceLess(m.cameraPosition, voxelData.x, LOD_DISTANCES[2]) THEN MEDIUM
  ELSE IF DistanceLess(m.cameraPosition, voxelData.x, LOD_DISTANCES[3]) THEN LOW
  ELSE CULLED

shouldCullVoxel(m, voxelData) == calculateLODLevel(m, voxelData) = CULLED

\* ------------------------------------------------------------- chunks

NewChunk(ck) ==
  [ck |-> ck,
   voxelInstances |-> <<>>,
   availableIndices |-> [s \in VoxelStates |-> [l \in RenderLODs |-> <<>>]],
   nextInstanceIndex |-> [s \in VoxelStates |-> [l \in RenderLODs |-> 0]]]

\* Position of the chunk with coordinate ck in the chunk map, 0 if absent.
ChunkAt(chs, ck) ==
  IF \E i \in 1..Len(chs) : chs[i].ck = ck
  THEN CHOOSE i \in 1..Len(chs) : chs[i].ck = ck
  ELSE 0

getOrCreateChunk(chs, ck) ==
  IF ChunkAt(chs, ck) = 0 THEN Append(chs, NewChunk(ck)) ELSE chs

\* voxelInstances.get(key): position of the record, 0 if absent.
InstanceAt(chunk, key) ==
  IF \E i \in 1..Len(chunk.voxelInstances) : chunk.voxelInstances[i].key = key
  THEN CHOOSE i \in 1..Len(chunk.voxelInstances) : chunk.voxelInstances[i].key = key
  ELSE 0

\* voxelInstances.set(key, rec): in place for a present key, else at the end.
SetInstance(chunk, rec) ==
  LET i == InstanceAt(chunk, rec.key) IN
  IF i = 0
  THEN [chunk EXCEPT !.voxelInstances = Append(@, rec)]
  ELSE [chunk EXCEPT !.voxelInstances[i] = rec]

\* voxelInstances.delete(key)
DeleteInstance(chunk, key) ==
  [chunk EXCEPT !.voxelInstances = SelectSeq(@, LAMBDA r : r.key # key)]

\* A variant that starts over at slot 0 whenever the free list is empty.
FirstSlot(chunk, state, lod) ==
  IF Len(chunk.availableIndices[state][lod]) > 0
  THEN chunk.availableIndices[state][lod][Len(chunk.availableIndices[state][lod])]
  ELSE 0

\* The index getAvailableInstanceIndex returns.
AcquiredIndex(chunk, state, lod) ==
  IF Len(chunk.availableIndices[state][lod]) > 0
  THEN Last(chunk.availableIndices[state][lod])
  ELSE chunk.nextInstanceIndex[state][lod]

\* The chunk after getAvailableInstanceIndex.
getAvailableInstanceIndex(chunk, state, lod) ==
  IF Len(chunk.availableIndices[state][lod]) > 0
  THEN [chunk EXCEPT !.availableIndices[state][lod] = Front(@)]
  ELSE [chunk EXCEPT !.nextInstanceIndex[state][lod] = @ + 1]

\* A variant that forgets the index it is given.
ForgetIndex(chunk, state, lod, index) == chunk

releaseInstanceIndex(chunk, state, lod, index) ==
  [chunk EXCEPT !.availableIndices[state][lod] = Append(@, index)]

\* A variant that keeps every chunk.
KeepChunks(chs) == chs

cleanupEmptyChunks(chs) == SelectSeq(chs, LAMBDA c : Len(c.voxelInstances) > 0)

\* Every live record with the chunk that holds it, in the iteration order of
\* chunks.forEach and voxelInstances.forEach.
AllInstances(chs) ==
  Concat([i \in 1..Len(chs) |->
            [j \in 1..Len(chs[i].voxelInstances) |->
               [ck |-> chs[i].ck, key |-> chs[i].voxelInstances[j].key,
                state |-> chs[i].voxelInstances[j].state,
                instanceIndex |-> chs[i].voxelInstances[j].instanceIndex,
                lodLevel |-> chs[i].voxelInstances[j].lodLevel]]])

getTotalVoxelCount(chs) == Len(AllInstances(chs))

LiveKeysOf(chs) == {r.key : r \in Range(AllInstances(chs))}

\* ------------------------------------------------ processVoxelUpdate

\* The removal branch: every chunk that holds the key releases and deletes it.
RemoveEverywhere(chs, key) ==
  [i \in 1..Len(chs) |->
     LET j == InstanceAt(chs[i], key) IN
     IF j = 0 THEN chs[i]
     ELSE LET r == chs[i].voxelInstances[j] IN
          DeleteInstance(releaseInstanceIndex(chs[i], r.state, r.lodLevel, r.instanceIndex), key)]

\* A new record for the key, in the slot its bucket hands out.
PutRecord(chunk, key, voxelData, lod) ==
  SetInstance(getAvailableInstanceIndex(chunk, voxelData.state, lod),
              [key |-> key, state |-> voxelData.state,
               instanceIndex |-> AcquiredIndex(chunk, voxelData.state, lod),
               lodLevel |-> lod])

\* The key has the record `old` in the chunk: a new slot when state or LOD
\* level changed, else only the transform of its slot.
\* A variant that takes a new slot for every update of a live record.
TakeNewSlot(chunk, old, key, voxelData, lod) == PutRecord(chunk, key, voxelData, lod)

\* A variant that takes a new slot without giving the old one back.
KeepOldSlot(chunk, old, key, voxelData, lod) ==
  IF old.state # voxelData.state \/ old.lodLevel # lod
  THEN PutRecord(chunk, key, voxelData, lod)
  ELSE chunk

UpdateRecord(chunk, old, key, voxelData, lod) ==
  IF old.state # voxelData.state \/ old.lodLevel # lod
  THEN PutRecord(releaseInstanceIndex(chunk, old.state, old.lodLevel, old.instanceIndex),
                 key, voxelData, lod)
  ELSE chunk

\* The add/update branch on the chunk of the voxel's coordinates.
UpsertInChunk(chunk, key, voxelData, lod) ==
  IF InstanceAt(chunk, key) # 0
  THEN UpdateRecord(chunk, chunk.voxelInstances[InstanceAt(chunk, key)],
                    key, voxelData, lod)
  ELSE PutRecord(chunk, key, voxelData, lod)

\* A variant that leaves the follow target to the frame loop.
TrackKeysOnly(m, key, voxelData) ==
  [m EXCEPT
     !.currentPositionKey =
        IF voxelData.state = "CURRENT_POSITION" THEN key ELSE @,
     !.currentTargetKey =
        IF voxelData.state = "CURRENT_TARGET" THEN key ELSE @]

\* The special-voxel bookkeeping at the end of processVoxelUpdate.
TrackSpecial(m, key, voxelData) ==
  [m EXCEPT
     !.currentPositionKey =
        IF voxelData.state = "CURRENT_POSITION" THEN key ELSE @,
     !.cameraFollowTarget =
        IF voxelData.state = "CURRENT_POSITION" /\ m.isFollowingEnabled
        THEN voxelData.x ELSE @,
     !.currentTargetKey =
        IF voxelData.state = "CURRENT_TARGET" THEN key ELSE @]

\* The add/update branch for a state the chunk has no buckets for: the
\* record the key has in the chunk gives its slot back, then
\* getAvailableInstanceIndex reads a property of undefined and throws.
ReleaseThenThrow(chunk, key) ==
  IF InstanceAt(chunk, key) # 0
  THEN releaseInstanceIndex(chunk,
                            chunk.voxelInstances[InstanceAt(chunk, key)].state,
                            chunk.voxelInstances[InstanceAt(chunk, key)].lodLevel,
                            chunk.voxelInstances[InstanceAt(chunk, key)].instanceIndex)
  ELSE chunk

\* The add/update branch: chs is the chunk map after getOrCreateChunk.
UpsertVoxel(m, chs, key, voxelData, lod) ==
  IF ~KnownState(voxelData.state)
  THEN [m EXCEPT !.chunks =
                    [chs EXCEPT ![ChunkAt(chs, getChunkCoords(voxelData.x))] =
                       ReleaseThenThrow(@, key)],
                 !.log.threw = TRUE]
  ELSE
  TrackSpecial(
    [m EXCEPT !.chunks =
       [chs EXCEPT ![ChunkAt(chs, getChunkCoords(voxelData.x))] =
          UpsertInChunk(@, key, voxelData, lod)]],
    key, voxelData)

\* processVoxelUpdate for voxel data of LOD level lod.
ApplyAtLOD(m, key, voxelData, lod) ==
  IF lod = CULLED THEN m
  ELSE UpsertVoxel(m, getOrCreateChunk(m.chunks, getChunkCoords(voxelData.x)),
                   key, voxelData, lod)

\* processVoxelUpdate without the history.
ApplyUpdate(m, key, voxelData) ==
  IF voxelData = NULL
  THEN [m EXCEPT !.chunks = RemoveEverywhere(@, key)]
  ELSE ApplyAtLOD(m, key, voxelData, calculateLODLevel(m, voxelData))

\* History of one processVoxelUpdate call: its arguments, the LOD level it
\* computed (CULLED for a removal), whether the key had a live record before
\* and has one after, and whether the queue entry it came from had been
\* overwritten with other data while it waited.
LogApplied(m, after, key, voxelData) ==
  [key |-> key, voxelData |-> voxelData,
   lod |-> IF voxelData = NULL THEN CULLED ELSE calculateLODLevel(m, voxelData),
   had |-> key \in LiveKeysOf(m.chunks),
   has |-> key \in LiveKeysOf(after.chunks),
   rewritten |-> key \in m.log.rewritten]

\* The instance index of the record a processVoxelUpdate call wrote.
SlotWritten(after, key, voxelData) ==
  IF voxelData = NULL \/ after.log.threw
     \/ ChunkAt(after.chunks, getChunkCoords(voxelData.x)) = 0
  THEN {}
  ELSE {r.instanceIndex :
          r \in {q \in Range(after.chunks[ChunkAt(after.chunks,
                                    getChunkCoords(voxelData.x))].voxelInstances) :
                   q.key = key}}

\* History of a processVoxelUpdate call that found a record of the key in
\* the chunk of the voxel (the branch at `if (existingInstance)`): the record
\* it found, the state and LOD level of the update, the chunk before and
\* after the call, and the records of the key in all chunks after it.
Reprocessed(m, after, key, voxelData) ==
  IF voxelData = NULL \/ calculateLODLevel(m, voxelData) = CULLED
     \/ ChunkAt(m.chunks, getChunkCoords(voxelData.x)) = 0
  THEN {}
  ELSE IF InstanceAt(m.chunks[ChunkAt(m.chunks, getChunkCoords(voxelData.x))], key) = 0
  THEN {}
  ELSE {[key |-> key, state |-> voxelData.state,
         lod |-> calculateLODLevel(m, voxelData),
         existingInstance |->
           m.chunks[ChunkAt(m.chunks, getChunkCoords(voxelData.x))].voxelInstances[
             InstanceAt(m.chunks[ChunkAt(m.chunks, getChunkCoords(voxelData.x))], key)],
         before |-> m.chunks[ChunkAt(m.chunks, getChunkCoords(voxelData.x))],
         after |-> after.chunks[ChunkAt(after.chunks, getChunkCoords(voxelData.x))],
         records |-> {r \in Range(AllInstances(after.chunks)) : r.key = key}]}

WithApplied(m, after, key, voxelData) ==
  [after EXCEPT !.log.applied = Append(@, LogApplied(m, after, key, voxelData)),
                !.log.slots = @ \cup SlotWritten(after, key, voxelData),
                !.log.moves = @ \cup Reprocessed(m, after, key, voxelData)]

processVoxelUpdate(m, key, voxelData) ==
  WithApplied(m, ApplyUpdate(m, key, voxelData), key, voxelData)

\* ------------------------------------------------------------- queue

QueueAt(q, key) ==
  IF \E i \in 1..Len(q) : q[i].key = key
  THEN CHOOSE i \in 1..Len(q) : q[i].key = key
  ELSE 0

QueueKeys(q) == {q[i].key : i \in 1..Len(q)}

\* A variant that queues a second entry for a key already queued.
PushAgain(m, key, voxelData) ==
  [m EXCEPT !.voxelUpdateQueue = Append(@, [key |-> key, voxelData |-> voxelData])]

\* addToQueue for a key in queuedKeys: overwrite its entry in place.
ReplaceQueued(m, key, voxelData) ==
  LET existingIndex == QueueAt(m.voxelUpdateQueue, key) IN
  IF existingIndex # 0
  THEN [m EXCEPT !.voxelUpdateQueue[existingIndex] = [key |-> key, voxelData |-> voxelData],
                 !.log.rewritten =
                    IF m.voxelUpdateQueue[existingIndex].voxelData # voxelData
                    THEN @ \cup {key} ELSE @]
  ELSE m

\* A variant that never drops an entry.
NoRoom(m) == m

\* addToQueue at the size limit: splice the oldest entries off the front.
MakeRoom(m) ==
  IF Len(m.voxelUpdateQueue) >= MAX_QUEUE_SIZE
  THEN LET n == IF Len(m.voxelUpdateQueue) < QUEUE_DROP
                THEN Len(m.voxelUpdateQueue) ELSE QUEUE_DROP
           toRemove == SubSeq(m.voxelUpdateQueue, 1, n)
       IN [m EXCEPT
             !.voxelUpdateQueue = SubSeq(@, n + 1, Len(@)),
             !.queuedKeys = @ \ QueueKeys(toRemove),
             !.log.rewritten = @ \ QueueKeys(toRemove),
             !.log.lost = @ \cup QueueKeys(toRemove)]
  ELSE m

\* addToQueue without the history.
Enqueue(m, key, voxelData) ==
  IF key \in m.queuedKeys
  THEN ReplaceQueued(m, key, voxelData)
  ELSE [MakeRoom(m) EXCEPT
          !.voxelUpdateQueue = Append(@, [key |-> key, voxelData |-> voxelData]),
          !.queuedKeys = @ \cup {key}]

\* History of one addToQueue call: its arguments and the queue around it.
LogCall(m, after, key, voxelData) ==
  [key |-> key, voxelData |-> voxelData,
   before |-> m.voxelUpdateQueue, after |-> after.voxelUpdateQueue,
   keysAfter |-> after.queuedKeys]

WithCall(m, after, key, voxelData) ==
  [after EXCEPT !.log.calls = Append(@, LogCall(m, after, key, voxelData))]

addToQueue(m, key, voxelData) ==
  WithCall(m, Enqueue(m, key, voxelData), key, voxelData)

\* The body of the inner loop on the shifted entry: delete its key from
\* queuedKeys, apply it.
ApplyPopped(m, update, elapsed) ==
  [processVoxelUpdate([m EXCEPT !.voxelUpdateQueue = Tail(@),
                                !.queuedKeys = @ \ {update.key},
                                !.log.pops = Append(@, elapsed)],
                      update.key, update.voxelData)
     EXCEPT !.log.rewritten = @ \ {update.key}]

\* One iteration of the inner loop: shift, delete from queuedKeys, apply.
PopAndApply(m, elapsed) == ApplyPopped(m, Head(m.voxelUpdateQueue), elapsed)

\* The inner while loop.  budget2 is twice the frame budget in ms (the
\* overloaded budget FRAME_BUDGET_MS * 1.5 is not a whole multiple).
RECURSIVE InnerLoop(_, _, _, _, _, _, _)
InnerLoop(m, elapsed, processedCount, totalProcessed, cost, batch, budget2) ==
  IF /\ ~m.log.threw
     /\ Len(m.voxelUpdateQueue) > 0
     /\ processedCount < batch
     /\ 2 * elapsed < budget2
  THEN InnerLoop(PopAndApply(m, elapsed), elapsed + cost, processedCount + 1,
                 totalProcessed + 1, cost, batch, budget2)
  ELSE [m |-> m, elapsed |-> elapsed, processedCount |-> processedCount,
        totalProcessed |-> totalProcessed]

\* The outer while loop: batches as long as time allows; r is what the inner
\* loop left behind.
RECURSIVE OuterLoop(_, _, _, _, _, _)
AfterBatch(r, cost, batch, budget2) ==
  IF r.processedCount = 0 \/ r.m.log.threw
  THEN [m |-> r.m, totalProcessed |-> r.totalProcessed]
  ELSE OuterLoop(r.m, r.elapsed, r.totalProcessed, cost, batch, budget2)

OuterLoop(m, elapsed, totalProcessed, cost, batch, budget2) ==
  IF 2 * elapsed < budget2
  THEN AfterBatch(InnerLoop(m, elapsed, 0, totalProcessed, cost, batch, budget2),
                  cost, batch, budget2)
  ELSE [m |-> m, totalProcessed |-> totalProcessed]

\* isQueueOverloaded: length > MAX_QUEUE_SIZE * 0.8
IsQueueOverloaded(q) == 10 * Len(q) > 8 * MAX_QUEUE_SIZE

\* A variant with a budget of eight frames.
LongBudget2(overloaded) == 16 * FRAME_BUDGET_MS

\* Twice currentFrameBudget.
FrameBudget2(overloaded) ==
  IF overloaded THEN 3 * FRAME_BUDGET_MS ELSE 2 * FRAME_BUDGET_MS

BatchSize(overloaded) == IF overloaded THEN BATCH_SIZE * 2 ELSE BATCH_SIZE

\* A variant that returns with isProcessingBatch still set.
LeaveBatchOpen(m, totalProcessed) ==
  [m EXCEPT !.chunks = IF totalProcessed > 0 THEN cleanupEmptyChunks(@) ELSE @,
            !.needsRender = IF totalProcessed > 0 \/ Len(m.voxelUpdateQueue) > 0
                            THEN TRUE ELSE @]

\* The end of processBatchedVoxelUpdates: empty chunks go when something was
\* processed, another frame is requested while entries wait.
FinishDrain(m, totalProcessed) ==
  [m EXCEPT !.chunks = IF totalProcessed > 0 THEN cleanupEmptyChunks(@) ELSE @,
            !.needsRender = IF totalProcessed > 0 \/ Len(m.voxelUpdateQueue) > 0
                            THEN TRUE ELSE @,
            !.isProcessingBatch = FALSE]

\* An exception leaves the drain at once, isProcessingBatch still set.
FinishLoops(r) == IF r.m.log.threw THEN r.m ELSE FinishDrain(r.m, r.totalProcessed)

\* The drain of a queue that is or is not overloaded.
Drain(m, cost, overloaded) ==
  FinishLoops(OuterLoop([m EXCEPT !.isProcessingBatch = TRUE,
                                  !.log.drainFrom = m.voxelUpdateQueue,
                                  !.log.cost = cost],
                        0, 0, cost, BatchSize(overloaded), FrameBudget2(overloaded)))

\* processBatchedVoxelUpdates; every processVoxelUpdate of the call takes
\* `cost` ms on the clock.
processBatchedVoxelUpdates(m, cost) ==
  IF Len(m.voxelUpdateQueue) = 0 \/ m.isProcessingBatch
  THEN Stepped(m, "processBatchedVoxelUpdates")
  ELSE Drain(Stepped(m, "processBatchedVoxelUpdates"), cost,
             IsQueueOverloaded(m.voxelUpdateQueue))

\* ------------------------------------------------------ housekeeping

\* Release and delete the records named by the <<chunk, key>> pairs.
RemoveEntries(chs, entries) ==
  [i \in 1..Len(chs) |->
     LET RECURSIVE Drop(_, _)
         Drop(chunk, j) ==
           IF j > Len(chs[i].voxelInstances) THEN chunk
           ELSE LET r == chs[i].voxelInstances[j] IN
                IF <<chs[i].ck, r.key>> \in entries
                THEN Drop(DeleteInstance(
                            releaseInstanceIndex(chunk, r.state, r.lodLevel, r.instanceIndex),
                            r.key), j + 1)
                ELSE Drop(chunk, j + 1)
     IN Drop(chs[i], 1)]

\* History of a housekeeping pass: key and state of the records it removes.
LogRemoved(chs, entries) ==
  {[key |-> r.key, state |-> r.state] :
     r \in {q \in Range(AllInstances(chs)) : <<q.ck, q.key>> \in entries}}

\* A variant that measures with the culling distance.
StaleAtCullDistance(m) ==
  {<<r.ck, r.key>> : r \in {q \in Range(AllInstances(m.chunks)) :
                    /\ ~IsCritical(q.state)
                    /\ DistanceGreater(m.cameraPosition, parseKey(q.key), LOD_DISTANCES[3])}}

\* What performPeriodicCleanup collects in voxelsToRemove.
StaleEntries(m) ==
  {<<r.ck, r.key>> : r \in {q \in Range(AllInstances(m.chunks)) :
                    /\ ~IsCritical(q.state)
                    /\ DistanceGreater(m.cameraPosition, parseKey(q.key), CLEANUP_DISTANCE)}}

\* Release and delete the entries, drop the chunks left empty.
Evict(m, entries) ==
  [m EXCEPT !.chunks = IF entries # {}
                       THEN cleanupEmptyChunks(RemoveEntries(@, entries))
                       ELSE @,
            !.log.evicted = @ \cup {e[2] : e \in entries}]

\* performPeriodicCleanup once the interval has passed.
CleanUp(m, voxelsToRemove) ==
  [Evict(m, voxelsToRemove) EXCEPT
     !.sinceCleanup = 0,
     !.log.cleaned = LogRemoved(m.chunks, voxelsToRemove),
     !.log.sweptAfter = <<m.log.sinceSweep>>,
     !.log.sinceSweep = <<0>>]

\* A variant without the time check.
SweepEveryFrame(m) == CleanUp(m, StaleEntries(m))

performPeriodicCleanup(m) ==
  IF m.sinceCleanup < CLEANUP_INTERVAL_MS THEN Stepped(m, "performPeriodicCleanup")
  ELSE CleanUp(Stepped(m, "performPeriodicCleanup"), StaleEntries(m))

\* A variant that leaves voxelsByDistance in iteration order.
Unsorted(m, recs) == recs

\* A variant that evicts nothing.
KeepAll(m) == m

\* cameraPos.distanceTo of a key's coordinates, in units of sqrt(3)/FP.
KeyDistance(m, key) == Abs(m.cameraPosition - parseKey(key) * FP)

\* voxelsByDistance.sort((a, b) => b.distance - a.distance): a stable sort,
\* farthest first.
RECURSIVE InsertByDistance(_, _, _)
InsertByDistance(m, sorted, r) ==
  IF sorted = <<>> THEN <<r>>
  ELSE IF KeyDistance(m, Head(sorted).key) >= KeyDistance(m, r.key)
       THEN <<Head(sorted)>> \o InsertByDistance(m, Tail(sorted), r)
       ELSE <<r>> \o sorted

RECURSIVE SortByDistance(_, _)
SortByDistance(m, recs) ==
  IF recs = <<>> THEN <<>>
  ELSE InsertByDistance(m, SortByDistance(m, Front(recs)), Last(recs))

\* The first excessVoxels entries of voxelsByDistance, or all of them.
Farthest(voxelsByDistance, excessVoxels) ==
  {<<voxelsByDistance[i].ck, voxelsByDistance[i].key>> :
     i \in 1..(IF excessVoxels < Len(voxelsByDistance)
               THEN excessVoxels ELSE Len(voxelsByDistance))}

\* What enforceVoxelLimit puts in toRemove.
ExcessEntries(m) ==
  Farthest(SortByDistance(m, SelectSeq(AllInstances(m.chunks),
                                       LAMBDA r : ~IsCritical(r.state))),
           getTotalVoxelCount(m.chunks) - MAX_TOTAL_VOXELS)

\* enforceVoxelLimit above the limit.
RemoveExcess(m, toRemove) ==
  [Evict(m, toRemove) EXCEPT
     !.log.limited = LogRemoved(m.chunks, toRemove),
     !.log.excess = getTotalVoxelCount(m.chunks) - MAX_TOTAL_VOXELS,
     !.log.cutAfter = <<m.log.sinceCut>>,
     !.log.sinceCut = <<0>>]

enforceVoxelLimit(m) ==
  IF getTotalVoxelCount(m.chunks) <= MAX_TOTAL_VOXELS THEN Stepped(m, "enforceVoxelLimit")
  ELSE RemoveExcess(Stepped(m, "enforceVoxelLimit"), ExcessEntries(m))

\* ------------------------------------------------------------- camera

\* v * followLerpFactor (0.05) in fixed point, rounded toward zero.
Lerp(v) == IF v < 0 THEN -(((-v) * 5) \div 100) ELSE (v * 5) \div 100

detectUserCameraControl(m) ==
  LET cameraPositionChanged == m.cameraPosition # m.lastCameraPosition
      controlsTargetChanged == m.controlsTarget # m.lastControlsTarget
  IN [m EXCEPT
        !.userControlledCamera =
           IF /\ cameraPositionChanged \/ controlsTargetChanged
              /\ ~m.isAutomaticallyMovingCamera
           THEN TRUE ELSE @,
        !.lastCameraPosition = m.cameraPosition,
        !.lastControlsTarget = m.controlsTarget,
        !.log.steps = Append(@, "detectUserCameraControl")]

\* The follow block of animate; `moved` is what it adds to shouldRender.
\* delta.length() > 0.001 is delta # 0: one fixed-point step is longer than
\* the epsilon.
FollowCamera(m) ==
  IF m.isFollowingEnabled /\ m.currentPositionKey # NOKEY /\ ~m.userControlledCamera
  THEN LET desiredPosition == (m.cameraFollowTarget + m.cameraOffset) * FP
           delta == Lerp(desiredPosition - m.cameraPosition)
           targetDelta == Lerp(m.cameraFollowTarget * FP - m.controlsTarget)
       IN IF delta # 0
          THEN [m |-> [m EXCEPT !.cameraPosition = @ + delta,
                                !.controlsTarget = @ + targetDelta],
                moved |-> TRUE]
          ELSE [m |-> m, moved |-> FALSE]
  ELSE IF m.isFollowingEnabled /\ m.currentPositionKey # NOKEY /\ m.userControlledCamera
  THEN LET currentOffset == m.cameraPosition - m.controlsTarget
           targetDelta == Lerp(m.cameraFollowTarget * FP - m.controlsTarget)
       IN IF targetDelta # 0
          THEN [m |-> [m EXCEPT !.controlsTarget = @ + targetDelta,
                                !.cameraPosition = m.controlsTarget + targetDelta + currentOffset],
                moved |-> TRUE]
          ELSE [m |-> m, moved |-> FALSE]
  ELSE [m |-> m, moved |-> FALSE]

\* ------------------------------------------------------ the frame tick

\* A loop that draws on every tick.
RenderAlways(m, shouldRender) ==
  [m EXCEPT !.needsRender = FALSE, !.log.rendered = TRUE,
            !.log.steps = Append(@, "render")]

\* The end of animate: render when a render was asked for or the user
\* interacts.
RenderFrame(m, shouldRender) ==
  IF shouldRender \/ m.isUserInteracting
  THEN [m EXCEPT !.needsRender = FALSE, !.log.rendered = TRUE,
                 !.log.steps = Append(@, "render")]
  ELSE m

\* updateChunkVisibility: every mesh of every chunk is set visible, the
\* culling is switched off; the model has no mesh that is not.
updateChunkVisibility(m) == Stepped(m, "updateChunkVisibility")

\* animate after the drain: housekeeping and render, unless the drain threw.
KeepAndRender(m, shouldRender) ==
  IF m.log.threw THEN m
  ELSE RenderFrame(updateChunkVisibility(enforceVoxelLimit(performPeriodicCleanup(m))),
                   shouldRender)

\* A variant that does the housekeeping before the drain.
KeepThenDrain(followed, shouldRender0, cost) ==
  RenderFrame(updateChunkVisibility(
                processBatchedVoxelUpdates(
                  enforceVoxelLimit(performPeriodicCleanup(followed.m)), cost)),
              shouldRender0 \/ followed.moved)

\* animate after the follow block: drain, housekeeping, render.
DrainAndRender(followed, shouldRender0, cost) ==
  KeepAndRender(processBatchedVoxelUpdates(followed.m, cost),
                shouldRender0 \/ followed.moved)

\* animate on the instance whose clock has advanced.
RunFrame(m, cost) ==
  DrainAndRender(FollowCamera(Stepped(detectUserCameraControl(m), "follow")),
                 m.needsRender, cost)

\* One call of animate: `dt` ms after the previous one, every
\* processVoxelUpdate of its drain costing `cost` ms.
animate(m0, dt, cost) ==
  RunFrame([StartLog(m0, "animate") EXCEPT
              !.animationId = TRUE,
              !.pendingFrame = TRUE,
              !.sinceCleanup = IF @ + dt > CLEANUP_INTERVAL_MS
                               THEN CLEANUP_INTERVAL_MS ELSE @ + dt,
              !.log.sinceSweep = IF @ = <<>> THEN @
                                 ELSE IF @[1] + dt > CLEANUP_INTERVAL_MS
                                 THEN <<CLEANUP_INTERVAL_MS>> ELSE <<@[1] + dt>>,
              !.log.sinceCut = IF @ = <<>> THEN @
                               ELSE IF @[1] + dt > CLEANUP_INTERVAL_MS
                               THEN <<CLEANUP_INTERVAL_MS>> ELSE <<@[1] + dt>>],
           cost)

\* ------------------------------------------------------- updateVoxels

MapKeys(voxelsMap) == {voxelsMap[i].key : i \in 1..Len(voxelsMap)}

\* currentKeys.forEach: queue a removal for every live key not in the map.
RECURSIVE QueueRemovals(_, _, _)
QueueRemovals(m, currentKeys, voxelsMap) ==
  IF currentKeys = <<>> THEN m
  ELSE QueueRemovals(
         IF Head(currentKeys) \in MapKeys(voxelsMap) THEN m
         ELSE addToQueue(m, Head(currentKeys), NULL),
         Tail(currentKeys), voxelsMap)

AddDistinct(d, key) == IF key \in Range(d) THEN d ELSE Append(d, key)

\* new Set of the live keys, in first-insertion order.
RECURSIVE Distinct(_)
Distinct(s) ==
  IF s = <<>> THEN <<>> ELSE AddDistinct(Distinct(Front(s)), Last(s))

\* A variant that queues the agent's voxels like the others.
QueueEvery(m, e) ==
  IF shouldCullVoxel(m, e.voxelData)
  THEN [m EXCEPT !.log.skipped = @ \cup {e.key}]
  ELSE addToQueue(m, e.key, e.voxelData)

\* One entry of voxelsMap.forEach: a critical voxel at once, another culled
\* or queued.
FeedEntry(m, e) ==
  IF IsCritical(e.voxelData.state)
  THEN [processVoxelUpdate(m, e.key, e.voxelData) EXCEPT !.needsRender = TRUE]
  ELSE IF shouldCullVoxel(m, e.voxelData)
  THEN [m EXCEPT !.log.skipped = @ \cup {e.key}]
  ELSE addToQueue(m, e.key, e.voxelData)

RECURSIVE FeedEntries(_, _)
FeedEntries(m, entries) ==
  IF entries = <<>> THEN m
  ELSE FeedEntries(FeedEntry(m, Head(entries)), Tail(entries))

\* currentKeys of updateVoxels.
CurrentKeys(live) == Distinct([i \in 1..Len(live) |-> live[i].key])

\* First voxel auto-centering, then the closing requestRender.
CenterOnFirst(m, voxelsMap) ==
  IF Len(m.chunks) = 0 /\ Len(voxelsMap) = 1
  THEN [m EXCEPT !.controlsTarget = voxelsMap[1].voxelData.x * FP,
                 !.cameraPosition = (voxelsMap[1].voxelData.x + 30) * FP,
                 !.needsRender = TRUE]
  ELSE [m EXCEPT !.needsRender = TRUE]

\* The two passes of updateVoxels: removals, then the entries of the map.
FeedMap(m, voxelsMap) ==
  FeedEntries(QueueRemovals(m, CurrentKeys(AllInstances(m.chunks)), voxelsMap),
              voxelsMap)

\* The records a key has in the chunk index.
RecordsOf(chs, key) == {r \in Range(AllInstances(chs)) : r.key = key}

\* History of an updateVoxels call: the keys whose record it changed.
WithChanged(m0, after) ==
  [after EXCEPT !.log.changed =
     {key \in LiveKeysOf(m0.chunks) \cup LiveKeysOf(after.chunks) :
        RecordsOf(m0.chunks, key) # RecordsOf(after.chunks, key)}]

\* voxelsMap: the Map's entries in insertion order, [key, voxelData].
updateVoxels(m0, voxelsMap) ==
  WithChanged(m0,
    CenterOnFirst(
      FeedMap([StartLog(m0, "updateVoxels") EXCEPT
                 !.log.map = MapKeys(voxelsMap), !.log.skipped = {},
                 !.log.evicted = {}, !.log.lost = {},
                 !.log.fed = voxelsMap,
                 !.log.feeds = IF @ < 2 THEN @ + 1 ELSE @],
              voxelsMap),
      voxelsMap))

\* ---------------------------------------------------- other handlers

setCameraFollowing(m0, enabled) ==
  [StartLog(m0, "setCameraFollowing") EXCEPT
     !.isFollowingEnabled = enabled,
     !.userControlledCamera = IF enabled THEN FALSE ELSE @]

\* A variant that leaves the snap to the follow controller.
LeaveToFollow(m) == m

\* The immediate move of resetCameraToDefault: camera at the follow target
\* plus the offset, orbit target on the follow target.
SnapToTarget(m) ==
  [m EXCEPT !.cameraPosition = (m.cameraFollowTarget + m.cameraOffset) * FP,
            !.controlsTarget = m.cameraFollowTarget * FP,
            !.needsRender = TRUE]

\* History of a handler: whether it changed the camera.
WithCameraMoved(m0, after) ==
  [after EXCEPT !.log.cameraMoved =
     \/ after.cameraPosition # m0.cameraPosition
     \/ after.controlsTarget # m0.controlsTarget]

ResetFollowing(m) ==
  [m EXCEPT !.isFollowingEnabled = TRUE,
            !.userControlledCamera = FALSE,
            !.cameraOffset = DEFAULT_OFFSET]

resetCameraToDefault(m0) ==
  WithCameraMoved(m0,
    IF m0.currentPositionKey # NOKEY
    THEN SnapToTarget(ResetFollowing(StartLog(m0, "resetCameraToDefault")))
    ELSE ResetFollowing(StartLog(m0, "resetCameraToDefault")))

\* A pan gesture on the OrbitControls between two frames (start, change,
\* end): camera and orbit target move together, the change event requests a
\* render.
userPan(m0, target) ==
  [StartLog(m0, "userPan") EXCEPT
     !.cameraPosition = target * FP + (m0.cameraPosition - m0.controlsTarget),
     !.controlsTarget = target * FP,
     !.needsRender = TRUE]

\* The OrbitControls 'start' listener: a gesture begins and stays open over
\* the frames that follow.
controlsStart(m0) ==
  [StartLog(m0, "controlsStart") EXCEPT !.isUserInteracting = TRUE, !.needsRender = TRUE]

\* The OrbitControls 'end' listener.
controlsEnd(m0) == [StartLog(m0, "controlsEnd") EXCEPT !.isUserInteracting = FALSE]

\* ----------------------------------------------------- events, dispose

\* onWindowResize: camera aspect and renderer size are not part of the
\* state, the requestRender is.
onWindowResize(m0) == [StartLog(m0, "resize") EXCEPT !.needsRender = TRUE]

\* handleDoubleClick: `intersects` holds the positions of the instances the
\* ray meets, nearest first; the orbit target moves onto the first.
handleDoubleClick(m0, intersects) ==
  IF intersects = <<>> THEN StartLog(m0, "dblclick")
  ELSE [StartLog(m0, "dblclick") EXCEPT !.controlsTarget = intersects[1] * FP,
                                        !.needsRender = TRUE]

\* centerCamera(bounds): nothing without a live voxel, else the orbit target
\* on the centre of the bounds and the camera twice their size away.
centerCamera(m0, bounds) ==
  IF getTotalVoxelCount(m0.chunks) = 0 THEN StartLog(m0, "centerCamera")
  ELSE [StartLog(m0, "centerCamera") EXCEPT
          !.controlsTarget = ((bounds.min + bounds.max) * FP) \div 2,
          !.cameraPosition = ((bounds.min + bounds.max) * FP) \div 2
                               + 2 * (bounds.max - bounds.min) * FP,
          !.needsRender = TRUE]

\* A variant that leaves the frame request with the browser.
KeepFrame(m) == m

\* if (this.animationId) cancelAnimationFrame(this.animationId)
CancelFrame(m) == [m EXCEPT !.pendingFrame = IF m.animationId THEN FALSE ELSE @]

\* handler.bind(this): a function object that did not exist before.
Bind(m) == [m EXCEPT !.boundFunctions = @ + 1]

\* removeEventListener(type, fn) takes out the listener registered with that
\* very function object, if there is one.
RemoveListener(m, type, fn) ==
  [m EXCEPT !.listeners = @ \ {[type |-> type, fn |-> fn]}]

\* removeEventListener(type, handler.bind(this))
RemoveBound(m, type) == RemoveListener(Bind(m), type, m.boundFunctions + 1)

dispose(m0) ==
  [RemoveBound(RemoveBound(CancelFrame(StartLog(m0, "dispose")), "dblclick"), "resize")
     EXCEPT !.voxelUpdateQueue = <<>>,
            !.queuedKeys = {},
            !.chunks = <<>>,
            !.log.disposed = TRUE,
            !.log.cleared = Len(m0.voxelUpdateQueue) + Len(m0.chunks)]
\* -------------------------------------------------------------- inputs

\* A Map filled in ascending key order.
RECURSIVE Ascending(_)
Ascending(S) ==
  IF S = {} THEN <<>>
  ELSE LET lo == CHOOSE k \in S : \A j \in S : k <= j
       IN <<lo>> \o Ascending(S \ {lo})

KeyOrders == {Ascending(S) : S \in SUBSET Keys}

\* The maps the feed builds: each key names its voxel's own coordinates
\* (useVoxelStream.ts line 179).  The map is empty (the feed was cleared) or
\* holds the agent's starting voxel.
FeedMaps ==
  UNION {{[i \in DOMAIN ks |-> [key |-> ks[i], voxelData |-> [x |-> ks[i], state |-> st[i]]]] :
            st \in {f \in [DOMAIN ks -> VoxelStates] :
                      \A i \in DOMAIN ks : f[i] \in FeedStates(ks[i])}} :
         ks \in {o \in KeyOrders : o = <<>> \/ o[1] = 0}}

\* The feed without an agent: WALKABLE voxels only.
WalkableMaps ==
  {[i \in DOMAIN ks |-> [key |-> ks[i], voxelData |-> [x |-> ks[i], state |-> "WALKABLE"]]] :
     ks \in KeyOrders}

\* Maps of a caller whose entry for key 0 may carry the coordinates of
\* another chunk than the key names, and that feeds chunk 0 more voxels than
\* an InstancedMesh has instances.
MovedPositions(key) == IF key = 0 THEN {0, 200} ELSE {key}

MovedMaps ==
  UNION {{[i \in DOMAIN ks |-> [key |-> ks[i], voxelData |-> [x |-> xs[i], state |-> "WALKABLE"]]] :
            xs \in {f \in [DOMAIN ks -> Keys \cup (0..MAX_INSTANCES_PER_CHUNK)] :
                      \A i \in DOMAIN ks : f[i] \in MovedPositions(ks[i])}} :
         ks \in {Ascending(S) : S \in SUBSET (0..MAX_INSTANCES_PER_CHUNK)}}

\* Maps that move the agent: each position holds nothing, a WALKABLE voxel
\* or the agent, and at most one position holds the agent.
PositionMaps ==
  {m \in UNION {{[i \in DOMAIN ks |->
                    [key |-> ks[i], voxelData |-> [x |-> ks[i], state |-> st[i]]]] :
                   st \in [DOMAIN ks -> {"WALKABLE", "CURRENT_POSITION"}]} :
                ks \in {Ascending(S) : S \in SUBSET {0, 1}}} :
     Cardinality({i \in DOMAIN m : m[i].voxelData.state = "CURRENT_POSITION"}) <= 1}

\* The maps of a feed that always knows where the agent is.
FollowMaps ==
  {m \in PositionMaps : \E i \in DOMAIN m : m[i].voxelData.state = "CURRENT_POSITION"}

\* Voxels on both sides of the origin and of a chunk border.
BorderKeys == {0 - CHUNK_SIZE - 1, 0 - CHUNK_SIZE, 0 - 1, 0, CHUNK_SIZE - 1, CHUNK_SIZE}

\* One voxel, or two that are neighbours or lie at the two ends of chunk -1.
BorderMaps ==
  {[i \in DOMAIN ks |-> [key |-> ks[i], voxelData |-> [x |-> ks[i], state |-> "WALKABLE"]]] :
     ks \in {<<k>> : k \in BorderKeys}
             \cup {<<k, k + 1>> : k \in {0 - CHUNK_SIZE - 1, 0 - 1, CHUNK_SIZE - 1}}
             \cup {<<0 - CHUNK_SIZE, 0 - 1>>}}

\* The maps of a feed that knows two voxels, the first of which the agent
\* steps on and off.
UpsertMaps ==
  {m \in PositionMaps : /\ Len(m) > 0
                        /\ m[1].key = 0
                        /\ \A i \in 2..Len(m) : m[i].voxelData.state = "WALKABLE"}

\* The maps of a feed that knows of nothing but the agent.
AgentMaps == {m \in FollowMaps : Len(m) = 1}

\* Maps of a caller that does not check the state label of what it passes
\* for voxel 0.
UncheckedStates(key) == IF key = 0 THEN {"WALKABLE", "LAVA"} ELSE {"WALKABLE"}

UncheckedMaps ==
  UNION {{[i \in DOMAIN ks |->
             [key |-> ks[i], voxelData |-> [x |-> ks[i], state |-> st[i]]]] :
            st \in {f \in [DOMAIN ks -> {"WALKABLE", "LAVA"}] :
                      \A i \in DOMAIN ks : f[i] \in UncheckedStates(ks[i])}} :
         ks \in {<<>>, <<0>>, <<0, 1>>}}

\* The bounds the stream hook keeps of the voxels it has seen.
CenterBounds == {[min |-> 0, max |-> 1]}

\* ------------------------------------------------------- specification

\* The constructor: initializeScene, setupControls, then the first animate(),
\* which renders the empty scene.
Init ==
  /\ chunks = <<>>
  /\ voxelUpdateQueue = <<>>
  /\ queuedKeys = {}
  /\ isProcessingBatch = FALSE
  /\ currentPositionKey = NOKEY
  /\ currentTargetKey = NOKEY
  /\ cameraFollowTarget = 0
  /\ isFollowingEnabled = TRUE
  /\ cameraOffset = DEFAULT_OFFSET
  /\ userControlledCamera = FALSE
  /\ isAutomaticallyMovingCamera = FALSE
  /\ cameraPosition = DEFAULT_OFFSET * FP
  /\ controlsTarget = 0
  /\ lastCameraPosition = DEFAULT_OFFSET * FP
  /\ lastControlsTarget = 0
  /\ needsRender = FALSE
  /\ isUserInteracting = FALSE
  /\ sinceCleanup = 0
  /\ animationId = TRUE
  /\ pendingFrame = TRUE
  /\ boundFunctions = 2
  /\ listeners = {[type |-> "dblclick", fn |-> 1], [type |-> "resize", fn |-> 2]}
  /\ trace = NoLog("constructor")

Tick(costs, durations, mode) ==
  /\ pendingFrame
  /\ \E dt \in durations, cost \in costs : Commit(animate(Self, dt, cost), mode)

UpdateVoxels(maps, mode) ==
  \E voxelsMap \in maps : Commit(updateVoxels(Self, voxelsMap), mode)

UserPan(mode) == \E target \in PanOffsets : Commit(userPan(Self, target), mode)

\* A pan that keeps the voxels in sight.
PanNear(mode) == \E target \in NearOffsets : Commit(userPan(Self, target), mode)

\* A pan to the edge of what the engine keeps.
PanFar(mode) == \E target \in FarOffsets : Commit(userPan(Self, target), mode)

DisableFollowing(mode) == Commit(setCameraFollowing(Self, FALSE), mode)

\* The reset button of the control panel.
ResetCamera(mode) == Commit(resetCameraToDefault(Self), mode)

\* The follow toggle of the control panel.
SetCameraFollowing(mode) ==
  \E enabled \in BOOLEAN : Commit(setCameraFollowing(Self, enabled), mode)

\* What a ray through the canvas can meet: nothing, or an instance of a
\* mesh in the scene (Points give no instanceId), at the position its
\* matrix holds, the one its key names.
Intersections ==
  {<<>>} \cup {<<parseKey(r.key)>> :
                 r \in {q \in Range(AllInstances(chunks)) : q.lodLevel # LOW}}

\* A resize event reaches the engine through the listener on window.
Resize(mode) ==
  /\ \E l \in listeners : l.type = "resize"
  /\ Commit(onWindowResize(Self), mode)

DblClick(mode) ==
  /\ \E l \in listeners : l.type = "dblclick"
  /\ \E intersects \in Intersections : Commit(handleDoubleClick(Self, intersects), mode)

\* The component calls the engine only while it holds it
\* (VoxelCanvas/index.tsx): not after it disposed of it.
CenterCamera(mode) ==
  /\ ~trace.disposed
  /\ \E bounds \in CenterBounds : Commit(centerCamera(Self, bounds), mode)

LiveUpdateVoxels(maps, mode) == ~trace.disposed /\ UpdateVoxels(maps, mode)

Dispose(mode) == ~trace.disposed /\ Commit(dispose(Self), mode)

\* The engine with camera-follow switched off by the control panel before
\* the feed starts: the camera moves only when the user pans.  The updates
\* cost no measurable time, so a frame drains the whole queue.
Next ==
  \/ isFollowingEnabled /\ DisableFollowing("frame")
  \/ ~isFollowingEnabled /\ UpdateVoxels(FeedMaps, "frame")
  \/ ~isFollowingEnabled /\ UserPan("frame")
  \/ Tick({0}, TickDurations, "frame")

Spec == Init /\ [][Next]_vars

\* The same engine fed WALKABLE voxels under every cost of an update, with
\* the history of its queue; every frame comes a cleanup interval after the
\* one before.
NextQueue ==
  \/ isFollowingEnabled /\ DisableFollowing("queue")
  \/ ~isFollowingEnabled /\ UpdateVoxels(WalkableMaps, "queue")
  \/ Tick(ItemCosts, {CLEANUP_INTERVAL_MS}, "queue")

SpecQueue == Init /\ [][NextQueue]_vars

\* The same engine fed WALKABLE voxels, remembering the last map it was given.
NextFeed ==
  \/ isFollowingEnabled /\ DisableFollowing("feed")
  \/ ~isFollowingEnabled /\ UpdateVoxels(WalkableMaps, "feed")
  \/ Tick(ItemCosts, TickDurations, "feed")

SpecFeed == Init /\ [][NextFeed]_vars

\* The same engine fed by a caller that moves a voxel under its key.
NextMoved ==
  \/ isFollowingEnabled /\ DisableFollowing("slots")
  \/ ~isFollowingEnabled /\ UpdateVoxels(MovedMaps, "slots")
  \/ Tick({0}, TickDurations, "slots")

SpecMoved == Init /\ [][NextMoved]_vars

\* The engine fed an agent that moves between two voxels, the user panning.
NextPosition ==
  \/ isFollowingEnabled /\ DisableFollowing("sync")
  \/ ~isFollowingEnabled /\ UpdateVoxels(PositionMaps, "sync")
  \/ ~isFollowingEnabled /\ UserPan("sync")
  \/ Tick({0}, {CLEANUP_INTERVAL_MS}, "sync")

SpecPosition == Init /\ [][NextPosition]_vars

\* The engine as constructed, following the agent while the toggle is on.
NextFollow ==
  \/ SetCameraFollowing("follow")
  \/ UpdateVoxels(FollowMaps, "follow")
  \/ Tick({0}, {CLEANUP_INTERVAL_MS}, "follow")

SpecFollow == Init /\ [][NextFollow]_vars

\* The engine from construction to disposal, fed unchecked states, with the
\* events of window and canvas.
NextLife ==
  \/ isFollowingEnabled /\ DisableFollowing("life")
  \/ ~isFollowingEnabled /\ LiveUpdateVoxels(UncheckedMaps, "life")
  \/ Tick({0}, {CLEANUP_INTERVAL_MS}, "life")
  \/ ~isFollowingEnabled /\ Resize("life")
  \/ ~isFollowingEnabled /\ DblClick("life")
  \/ ~isFollowingEnabled /\ CenterCamera("life")
  \/ ~isFollowingEnabled /\ Dispose("life")

SpecLife == Init /\ [][NextLife]_vars

\* The engine with its control panel: the agent moves, the user switches
\* following and resets the camera.
NextCamera ==
  \/ SetCameraFollowing("follow")
  \/ ResetCamera("follow")
  \/ UpdateVoxels(AgentMaps, "follow")
  \/ Tick({0}, {CLEANUP_INTERVAL_MS}, "follow")

SpecCamera == Init /\ [][NextCamera]_vars

\* The engine fed voxels that change state, the user moving the camera
\* nearer and farther between the feeds.
NextUpsert ==
  \/ isFollowingEnabled /\ DisableFollowing("upsert")
  \/ ~isFollowingEnabled /\ UpdateVoxels(UpsertMaps, "upsert")
  \/ ~isFollowingEnabled /\ PanNear("upsert")
  \/ Tick({0}, {CLEANUP_INTERVAL_MS}, "upsert")

SpecUpsert == Init /\ [][NextUpsert]_vars

\* calculateLODLevel applied to a camera position and a voxel.
Classify ==
  /\ \E camera \in LODCameras, voxelData \in LODVoxels :
       trace' = [NoLog("calculateLODLevel") EXCEPT
                   !.classified = {[camera |-> camera, voxelData |-> voxelData,
                                    lod |-> calculateLODLevelAt(camera, voxelData)]}]
  /\ UNCHANGED <<chunks, voxelUpdateQueue, queuedKeys, isProcessingBatch,
                 currentPositionKey, currentTargetKey, cameraFollowTarget,
                 isFollowingEnabled, cameraOffset, userControlledCamera,
                 isAutomaticallyMovingCamera, cameraPosition, controlsTarget,
                 lastCameraPosition, lastControlsTarget, needsRender,
                 isUserInteracting, sinceCleanup, animationId, pendingFrame,
                 listeners, boundFunctions>>

\* calculateLODLevel on its own, over LODCameras and LODVoxels.
NextLOD == Classify

SpecLOD == Init /\ [][NextLOD]_vars

\* The engine fed WALKABLE voxels twice and then left to its frames.  Every
\* animate() asks for the next frame before it does anything else
\* (requestAnimationFrame in its first line), and the browser runs a frame
\* that was asked for: the frame tick is weakly fair.  The fairness condition
\* is WF_vars(Tick(...)) with its ENABLED written as a state predicate: a
\* tick is enabled, and changes the state, at least while a frame is pending
\* and the queue holds entries.
NextDrain ==
  \/ isFollowingEnabled /\ DisableFollowing("drain")
  \/ ~isFollowingEnabled /\ trace.feeds < 2 /\ UpdateVoxels(WalkableMaps, "drain")
  \/ Tick(ItemCosts, {CLEANUP_INTERVAL_MS}, "drain")

SpecDrain ==
  /\ Init
  /\ [][NextDrain]_vars
  /\ \/ []<>(~(pendingFrame /\ voxelUpdateQueue # <<>>))
     \/ []<><<Tick(ItemCosts, {CLEANUP_INTERVAL_MS}, "drain")>>_vars

\* The engine fed two voxels next to the origin, the user panning away to
\* the culling distance and to the cleanup distance.
NextStale ==
  \/ isFollowingEnabled /\ DisableFollowing("frame")
  \/ ~isFollowingEnabled /\ UpdateVoxels(UpsertMaps, "frame")
  \/ ~isFollowingEnabled /\ PanFar("frame")
  \/ Tick({0}, TickDurations, "frame")

SpecStale == Init /\ [][NextStale]_vars

\* The engine told once where the agent is and following it, while the user
\* pans, and holds and releases the mouse on the canvas over several frames.
NextRender ==
  \/ currentPositionKey = NOKEY /\ UpdateVoxels(AgentMaps, "follow")
  \/ PanNear("follow")
  \/ ~isUserInteracting /\ Commit(controlsStart(Self), "follow")
  \/ isUserInteracting /\ Commit(controlsEnd(Self), "follow")
  \/ Tick({0}, {CLEANUP_INTERVAL_MS}, "follow")

SpecRender == Init /\ [][NextRender]_vars

\* The engine fed voxels around the origin.
NextBorder ==
  \/ isFollowingEnabled /\ DisableFollowing("op")
  \/ ~isFollowingEnabled /\ UpdateVoxels(BorderMaps, "op")
  \/ Tick({0}, {CLEANUP_INTERVAL_MS}, "op")

SpecBorder == Init /\ [][NextBorder]_vars

\* ------------------------------------------------------------ properties

Live == AllInstances(chunks)

LiveCount == getTotalVoxelCount(chunks)

NonCritical == {i \in 1..Len(Live) :
                  Live[i].state \notin {"CURRENT_POSITION", "CURRENT_TARGET"}}

\* Distance of a key's voxel from the camera, in units of sqrt(3) / FP.
FromCamera(key) ==
  IF cameraPosition >= key * FP THEN cameraPosition - key * FP
  ELSE key * FP - cameraPosition

\* C1: every key has at most one live record over all chunks, also when an
\* update carries, for a key that has one, coordinates of another chunk.
C1_OneRecordPerKey ==
  \A i, j \in 1..Len(Live) : i # j => Live[i].key # Live[j].key

\* C2: within one chunk no two live records of the same state and LOD level
\* hold the same instanceIndex.
C2_NoSlotAliasing ==
  \A c \in 1..Len(chunks) :
    \A i, j \in 1..Len(chunks[c].voxelInstances) :
      LET a == chunks[c].voxelInstances[i]
          b == chunks[c].voxelInstances[j]
      IN (i # j /\ a.state = b.state /\ a.lodLevel = b.lodLevel)
           => a.instanceIndex # b.instanceIndex

\* Two records share a bucket, and the one inserted later holds the lower
\* slot: a slot that was released and acquired again.
C2_SlotReused ==
  \E c \in 1..Len(chunks) :
    \E i, j \in 1..Len(chunks[c].voxelInstances) :
      LET a == chunks[c].voxelInstances[i]
          b == chunks[c].voxelInstances[j]
      IN /\ i < j
         /\ a.state = b.state /\ a.lodLevel = b.lodLevel
         /\ a.instanceIndex > b.instanceIndex

\* C3: once the frames have emptied the queue, the live keys are the keys of
\* the map of the last updateVoxels call, less those housekeeping evicted.
\* (Keys the call culled and keys whose queue entry was dropped at the size
\* limit are left out of the comparison.)
C3_LiveSetIsLastMap ==
  (trace.op = "animate" /\ voxelUpdateQueue = <<>>)
    => /\ LiveKeysOf(chunks) \ trace.lost \subseteq trace.map
       /\ trace.map \ (trace.evicted \cup trace.skipped \cup trace.lost)
            \subseteq LiveKeysOf(chunks)

\* C4: a processVoxelUpdate call with data whose LOD level is CULLED leaves
\* no live record for the key: it removes the one there is and creates none.
C4_CulledActsAsDelete ==
  \A o \in trace.outcomes :
    (o.state # "null" /\ o.lod = CULLED) => ~o.has

C6_CriticalVoxelsExempt ==
  /\ \A r \in trace.cleaned \cup trace.limited :
       r.state \notin {"CURRENT_POSITION", "CURRENT_TARGET"}
  /\ \A o \in trace.outcomes :
       o.state \in {"CURRENT_POSITION", "CURRENT_TARGET"} => (o.lod # CULLED /\ o.has)

\* enforceVoxelLimit evicted records while a critical record farther from
\* the camera than each of them stayed.
C6_FarthestCriticalStays ==
  /\ trace.op = "animate"
  /\ trace.limited # {}
  /\ \E i \in 1..Len(Live) :
       /\ Live[i].state \in {"CURRENT_POSITION", "CURRENT_TARGET"}
       /\ \A r \in trace.limited : FromCamera(Live[i].key) > FromCamera(r.key)

\* C7: when enforceVoxelLimit finds MAX_TOTAL_VOXELS + K records (K > 0), at
\* least K of them not critical, it leaves exactly MAX_TOTAL_VOXELS, having
\* evicted K records each at least as far from the camera as every record
\* that is left and not critical.
C7_LimitEvictsFarthest ==
  (/\ trace.op = "animate"
   /\ trace.excess > 0
   /\ Cardinality(trace.limited) + Cardinality(NonCritical) >= trace.excess)
    => /\ LiveCount = MAX_TOTAL_VOXELS
       /\ Cardinality(trace.limited) = trace.excess
       /\ \A r \in trace.limited : \A i \in NonCritical :
            FromCamera(r.key) >= FromCamera(Live[i].key)

\* enforceVoxelLimit evicted a record and left a nearer one that it could
\* have evicted.
C7_NearerVoxelLeft ==
  /\ trace.op = "animate"
  /\ trace.excess > 0
  /\ \E r \in trace.limited : \E i \in NonCritical :
       FromCamera(r.key) > FromCamera(Live[i].key)

\* C8: the queue holds at most one entry per key and queuedKeys is the set of
\* its keys; an addToQueue call for a queued key overwrites that entry in
\* place, so after every call the queue holds one entry for the key, with the
\* data of that call; and a drain calls processVoxelUpdate once for each
\* entry it pops, with the entry's data, each key once.
C8_QueueCoalesces ==
  /\ \A i, j \in 1..Len(voxelUpdateQueue) :
       i # j => voxelUpdateQueue[i].key # voxelUpdateQueue[j].key
  /\ queuedKeys = QueueKeys(voxelUpdateQueue)
  /\ \A n \in 1..Len(trace.calls) :
       LET c == trace.calls[n] IN
       /\ \E i \in 1..Len(c.after) :
            /\ c.after[i] = [key |-> c.key, voxelData |-> c.voxelData]
            /\ \A j \in 1..Len(c.after) : c.after[j].key = c.key => j = i
       /\ c.key \in QueueKeys(c.before) =>
            /\ Len(c.after) = Len(c.before)
            /\ \A j \in 1..Len(c.after) :
                 c.after[j].key # c.key => c.after[j] = c.before[j]
  /\ trace.op = "animate" =>
       /\ Len(trace.applied) = Len(trace.pops)
       /\ Len(trace.applied) <= Len(trace.drainFrom)
       /\ \A i \in 1..Len(trace.applied) :
            /\ trace.applied[i].key = trace.drainFrom[i].key
            /\ trace.applied[i].voxelData = trace.drainFrom[i].voxelData
       /\ \A i, j \in 1..Len(trace.applied) :
            i # j => trace.applied[i].key # trace.applied[j].key

\* A drain applied an entry that had been overwritten with other data while
\* it waited: addToQueue(k, null) then addToQueue(k, B), and k is live.
C8_OverwrittenEntryApplied ==
  /\ trace.op = "animate"
  /\ \E i \in 1..Len(trace.applied) :
       /\ trace.applied[i].rewritten
       /\ trace.applied[i].voxelData # NULL
       /\ trace.applied[i].has

CriticalFed == {i \in DOMAIN trace.fed : IsCritical(trace.fed[i].voxelData.state)}
RegularFed == DOMAIN trace.fed \ CriticalFed

\* The call applied entry i of its map through processVoxelUpdate.
AppliedFed(i) ==
  \E j \in DOMAIN trace.applied :
    /\ trace.applied[j].key = trace.fed[i].key
    /\ trace.applied[j].voxelData = trace.fed[i].voxelData

\* The call passed entry i of its map to addToQueue.
QueuedFed(i) ==
  \E j \in DOMAIN trace.calls :
    /\ trace.calls[j].key = trace.fed[i].key
    /\ trace.calls[j].voxelData = trace.fed[i].voxelData

\* The call applied nothing for the key of entry i and left its record alone.
UntouchedFed(i) ==
  /\ \A j \in DOMAIN trace.applied : trace.applied[j].key # trace.fed[i].key
  /\ trace.fed[i].key \notin trace.changed

\* The call applied entry i at once and queued nothing for its key.
SynchronousFed(i) ==
  /\ AppliedFed(i)
  /\ \A j \in DOMAIN trace.calls : trace.calls[j].key # trace.fed[i].key
  /\ \A j \in DOMAIN voxelUpdateQueue :
       voxelUpdateQueue[j] # [key |-> trace.fed[i].key,
                              voxelData |-> trace.fed[i].voxelData]

\* C11 as stated: when updateVoxels returns, every CURRENT_POSITION or
\* CURRENT_TARGET entry of its map has been applied through
\* processVoxelUpdate and not queued, and every other entry has been queued
\* and not applied, its record unchanged.
C11_OthersAllQueued ==
  trace.op = "updateVoxels" =>
    /\ \A i \in CriticalFed : SynchronousFed(i)
    /\ \A i \in RegularFed : UntouchedFed(i) /\ QueuedFed(i)

\* C11 amended: when updateVoxels returns, every CURRENT_POSITION or
\* CURRENT_TARGET entry of its map has been applied through
\* processVoxelUpdate and not queued; every other entry has not been applied
\* and its record is unchanged, and it has been queued exactly when the
\* distance culling against the camera of that moment did not skip it.
C11_CriticalSyncOthersDeferred ==
  trace.op = "updateVoxels" =>
    /\ \A i \in CriticalFed : SynchronousFed(i)
    /\ \A i \in RegularFed :
         /\ UntouchedFed(i)
         /\ QueuedFed(i) <=> trace.fed[i].key \notin trace.skipped

\* C11 witness: one call applied the agent's voxel at once and queued the
\* other voxel of its map, and another call skipped a voxel as too far.
C11_AppliedQueuedSkipped ==
  /\ trace.op = "updateVoxels"
  /\ \E i \in CriticalFed : AppliedFed(i) /\ trace.fed[i].key \in trace.changed
  /\ \E i \in RegularFed : trace.fed[i].key \in trace.skipped

\* Entries of the last map that carry the agent's position.
PositionFed == {i \in DOMAIN trace.fed : trace.fed[i].voxelData.state = "CURRENT_POSITION"}

\* C12: with following enabled, when updateVoxels returns from a map that has
\* CURRENT_POSITION at a key, currentPositionKey is that key and
\* cameraFollowTarget is that voxel's position, before any frame tick.
C12_FollowTargetAtOnce ==
  (trace.op = "updateVoxels" /\ isFollowingEnabled) =>
    \A i \in PositionFed :
      /\ currentPositionKey = trace.fed[i].key
      /\ cameraFollowTarget = trace.fed[i].voxelData.x

\* C12 witness: with following enabled, updateVoxels has just moved the
\* agent to a voxel away from the position the follow target started at.
C12_AgentMovedWhileFollowing ==
  /\ trace.op = "updateVoxels"
  /\ isFollowingEnabled
  /\ \E i \in PositionFed : trace.fed[i].key = 1 /\ cameraFollowTarget = 1

\* C13: once a frame has drained the queue after updateVoxels moved
\* CURRENT_POSITION to a key, no other key has a live record whose state is
\* CURRENT_POSITION: the key the agent left is no holder any more.
C13_SolePositionHolder ==
  (trace.op = "animate" /\ voxelUpdateQueue = <<>>) =>
    \A i \in PositionFed :
      \A r \in Range(AllInstances(chunks)) :
        r.state = "CURRENT_POSITION" => r.key = trace.fed[i].key

\* ------------------------------------------------------- bulk feeds

\* C14: after a single updateVoxels call whose map holds N voxels, none of
\* them critical and none culled, once the frames have emptied the queue the
\* live count is the smaller of N and MAX_TOTAL_VOXELS.
C14_BulkFeedSettlesAtMin ==
  (trace.feeds = 1 /\ trace.op = "animate" /\ voxelUpdateQueue = <<>>
     /\ trace.skipped = {})
    => LiveCount = IF Cardinality(trace.map) < MAX_TOTAL_VOXELS
                   THEN Cardinality(trace.map) ELSE MAX_TOTAL_VOXELS

\* C15: after updateVoxels with an empty map, once the frames have emptied
\* the queue no voxel is live.
C15_EmptyMapClearsAll ==
  (trace.feeds > 0 /\ trace.map = {} /\ trace.op = "animate"
     /\ voxelUpdateQueue = <<>>)
    => LiveCount = 0

\* ------------------------------------------------------ error handling

\* C16: no update is given an instance index at or beyond the capacity of
\* the bucket's mesh, MAX_INSTANCES_PER_CHUNK.
C16_IndexWithinCapacity ==
  \A index \in trace.slots : index < MAX_INSTANCES_PER_CHUNK

\* C17: an update with a state that is none of the six known labels is
\* dropped: no exception escapes the frame tick that applies it,
\* isProcessingBatch is false again when the tick is over, and no record
\* carries the unknown state.
C17_UnknownStateDropped ==
  trace.op = "animate" =>
    /\ ~trace.threw
    /\ ~isProcessingBatch
    /\ \A r \in Range(AllInstances(chunks)) : KnownState(r.state)

\* ------------------------------------------------------------ disposal

\* C18: once dispose() has returned no frame tick runs any more (the browser
\* holds no frame request and the handler that ran last is never animate),
\* and voxelUpdateQueue, queuedKeys and the chunk index are empty.
C18_DisposeStopsTheLoop ==
  trace.disposed =>
    /\ ~pendingFrame
    /\ trace.op # "animate"
    /\ voxelUpdateQueue = <<>>
    /\ queuedKeys = {}
    /\ chunks = <<>>

\* C18 witness: dispose() dropped queue entries or chunks, and an event has
\* arrived since.
C18_DisposedWhileLoaded ==
  /\ trace.disposed
  /\ trace.cleared > 0
  /\ trace.op = "resize"

\* C19: once dispose() has returned, the resize listener and the dblclick
\* listener of setupControls are no longer registered, and no resize or
\* dblclick event runs a handler of the engine.
C19_ListenersDetached ==
  trace.disposed =>
    /\ listeners = {}
    /\ trace.op \notin {"resize", "dblclick"}

\* C20: a callback or call that arrives after dispose() has returned changes
\* nothing of queue, chunks, records, needsRender and camera, and throws
\* nothing.
C20_NoOpAfterDispose ==
  [][trace.disposed =>
       /\ UNCHANGED <<voxelUpdateQueue, queuedKeys, chunks, needsRender,
                      cameraPosition, controlsTarget>>
       /\ ~trace'.threw]_vars

\* ------------------------------------------------------ camera control

\* C21: where nobody touches the camera (the feed moves the agent, the
\* follow toggle is switched, frames tick), no frame sets
\* userControlledCamera: the follow controller's own motion is not taken
\* for the user's.
C21_FollowingIsNotUserControl ==
  trace.op = "animate" => ~userControlledCamera

\* C22: when resetCameraToDefault returns, userControlledCamera is false and
\* cameraOffset is the default offset; with a tracked position the camera is
\* at the follow target plus the default offset and the orbit target on the
\* follow target, at once; without one the call has not moved the camera.
C22_ResetSnapsToDefault ==
  trace.op = "resetCameraToDefault" =>
    /\ ~userControlledCamera
    /\ cameraOffset = DEFAULT_OFFSET
    /\ currentPositionKey # NOKEY =>
         /\ cameraPosition = (cameraFollowTarget + DEFAULT_OFFSET) * FP
         /\ controlsTarget = cameraFollowTarget * FP
    /\ currentPositionKey = NOKEY => ~trace.cameraMoved

\* C22 witness: the reset has just moved the camera onto the tracked
\* position, which the follow controller had not reached yet.
C22_ResetMovedTheCamera ==
  /\ trace.op = "resetCameraToDefault"
  /\ currentPositionKey # NOKEY
  /\ trace.cameraMoved

\* ------------------------------------------------------------- chunks

\* C23: every live voxel is in the chunk whose coordinate is the floor of
\* its own divided by CHUNK_SIZE, below zero as well (c * CHUNK_SIZE <= x <
\* (c + 1) * CHUNK_SIZE), the index holds one chunk per coordinate, and two
\* voxels share a chunk exactly when those floors agree.
C23_ChunkIsFloorOfCoordinate ==
  /\ \A r \in Range(Live) :
       /\ r.ck * CHUNK_SIZE <= parseKey(r.key)
       /\ parseKey(r.key) < (r.ck + 1) * CHUNK_SIZE
  /\ \A i, j \in DOMAIN chunks : chunks[i].ck = chunks[j].ck => i = j

\* C23 witness: voxel -1 lives in chunk -1 next to voxel 0 in chunk 0.
C23_NegativeVoxelInItsChunk ==
  /\ \E r \in Range(Live) : r.key = 0 - 1 /\ r.ck = 0 - 1
  /\ \E r \in Range(Live) : r.key = 0 /\ r.ck = 0

\* C24: when a frame tick ends and when updateVoxels returns, the chunk
\* index holds no chunk without a live record.
C24_NoEmptyChunk ==
  trace.op \in {"animate", "updateVoxels"} =>
    \A c \in DOMAIN chunks : Len(chunks[c].voxelInstances) > 0

\* C24 witness: the drain of the frame removed a live voxel and the frame
\* ends with an empty chunk index.
C24_LastVoxelRemoved ==
  /\ trace.op = "animate"
  /\ \E o \in trace.outcomes : o.state = "null" /\ o.had /\ ~o.has
  /\ chunks = <<>>

\* ------------------------------------------- the queue against the feed

\* C25: once the frames have emptied the queue, every key the last
\* updateVoxels call applied at once as CURRENT_POSITION or CURRENT_TARGET
\* has a live record with that state: no entry queued for the key before the
\* call has overwritten or removed it.
C25_SyncUpdateNotOverridden ==
  (trace.op = "animate" /\ voxelUpdateQueue = <<>>) =>
    \A i \in CriticalFed :
      \E r \in Range(Live) :
        r.key = trace.fed[i].key /\ r.state = trace.fed[i].voxelData.state

\* C26: a frame makes no key live that the map of the last updateVoxels call
\* does not hold.
C26_DrainRevivesNoOmittedKey ==
  [][trace'.op = "animate" =>
       LiveKeysOf(chunks') \ LiveKeysOf(chunks) \subseteq trace'.map]_vars

\* ------------------------------------------------------------- slots

\* The instance indices the live records of a bucket hold, as a sequence.
IndicesInUse(chunk, state, lod) ==
  SelectSeq([i \in DOMAIN chunk.voxelInstances |->
               IF chunk.voxelInstances[i].state = state
                  /\ chunk.voxelInstances[i].lodLevel = lod
               THEN chunk.voxelInstances[i].instanceIndex ELSE 0 - 1],
            LAMBDA index : index >= 0)

\* The free list of a bucket followed by the indices in use.
IndicesKnown(chunk, state, lod) ==
  chunk.availableIndices[state][lod] \o IndicesInUse(chunk, state, lod)

\* C27: in every bucket (chunk, state, LOD level) the free list and the
\* instance indices of the live records hold every index below
\* nextInstanceIndex exactly once: no index is twice in the free list, none
\* is free and in use, none is leaked.
C27_FreeListPartitionsSlots ==
  \A c \in DOMAIN chunks : \A state \in VoxelStates : \A lod \in RenderLODs :
    /\ Len(IndicesKnown(chunks[c], state, lod))
         = chunks[c].nextInstanceIndex[state][lod]
    /\ Range(IndicesKnown(chunks[c], state, lod))
         = 0..(chunks[c].nextInstanceIndex[state][lod] - 1)

\* C27 witness: a bucket that has handed out two indices holds one of them
\* in its free list and the other in a live record.
C27_BucketWithFreeAndUsedSlot ==
  \E c \in DOMAIN chunks : \E state \in VoxelStates : \E lod \in RenderLODs :
    /\ chunks[c].nextInstanceIndex[state][lod] = 2
    /\ Len(chunks[c].availableIndices[state][lod]) = 1
    /\ Len(IndicesInUse(chunks[c], state, lod)) = 1

\* C28: a processVoxelUpdate call that finds a live record of the key and
\* brings another state or LOD level appends the record's instance index to
\* the free list of the old bucket and nothing else there, takes one index
\* in the new bucket (the last of its free list, or nextInstanceIndex, which
\* it increments), leaves every other bucket alone, and leaves the key with
\* one record, which holds the new state, the new LOD level and that index.
C28_OneReleaseOneAcquire ==
  \A mv \in trace.moves :
    (mv.existingInstance.state # mv.state \/ mv.existingInstance.lodLevel # mv.lod) =>
      /\ mv.after.availableIndices[mv.existingInstance.state][mv.existingInstance.lodLevel]
           = Append(mv.before.availableIndices[mv.existingInstance.state][mv.existingInstance.lodLevel],
                    mv.existingInstance.instanceIndex)
      /\ mv.after.nextInstanceIndex[mv.existingInstance.state][mv.existingInstance.lodLevel]
           = mv.before.nextInstanceIndex[mv.existingInstance.state][mv.existingInstance.lodLevel]
      /\ Cardinality(mv.records) = 1
      /\ Len(mv.after.voxelInstances) = Len(mv.before.voxelInstances)
      /\ \A r \in mv.records :
           /\ r.state = mv.state
           /\ r.lodLevel = mv.lod
           /\ IF mv.before.availableIndices[mv.state][mv.lod] # <<>>
              THEN /\ r.instanceIndex = Last(mv.before.availableIndices[mv.state][mv.lod])
                   /\ mv.after.availableIndices[mv.state][mv.lod]
                        = Front(mv.before.availableIndices[mv.state][mv.lod])
                   /\ mv.after.nextInstanceIndex[mv.state][mv.lod]
                        = mv.before.nextInstanceIndex[mv.state][mv.lod]
              ELSE /\ r.instanceIndex = mv.before.nextInstanceIndex[mv.state][mv.lod]
                   /\ mv.after.availableIndices[mv.state][mv.lod] = <<>>
                   /\ mv.after.nextInstanceIndex[mv.state][mv.lod]
                        = mv.before.nextInstanceIndex[mv.state][mv.lod] + 1
      /\ \A state \in VoxelStates : \A lod \in RenderLODs :
           (<<state, lod>> \notin {<<mv.state, mv.lod>>,
                                   <<mv.existingInstance.state, mv.existingInstance.lodLevel>>}) =>
             /\ mv.after.availableIndices[state][lod] = mv.before.availableIndices[state][lod]
             /\ mv.after.nextInstanceIndex[state][lod] = mv.before.nextInstanceIndex[state][lod]

\* C28 witness: after the camera moved away, a drain re-processed a voxel
\* stored at HIGH as MEDIUM, taking an index from the free list of the
\* MEDIUM bucket.
C28_HighVoxelBecameMedium ==
  /\ trace.op = "animate"
  /\ \E mv \in trace.moves :
       /\ mv.existingInstance.lodLevel = HIGH
       /\ mv.lod = MEDIUM
       /\ mv.existingInstance.state = mv.state
       /\ mv.before.availableIndices[mv.state][mv.lod] # <<>>

\* C29: calculateLODLevel gives HIGH for CURRENT_POSITION and CURRENT_TARGET
\* at every distance; for every other state it gives HIGH when the distance
\* d from the camera is below 225, MEDIUM when 225 <= d < 600, LOW when
\* 600 <= d < 1200 and CULLED when d >= 1200 (distances compared by their
\* squares).
C29_LODIsStepFunctionOfDistance ==
  \A c \in trace.classified :
    IF c.voxelData.state \in {"CURRENT_POSITION", "CURRENT_TARGET"}
    THEN c.lod = HIGH
    ELSE /\ c.lod = HIGH <=> DistanceToSquared(c.camera, c.voxelData) < 225 * 225
         /\ c.lod = MEDIUM <=> /\ DistanceToSquared(c.camera, c.voxelData) >= 225 * 225
                               /\ DistanceToSquared(c.camera, c.voxelData) < 600 * 600
         /\ c.lod = LOW <=> /\ DistanceToSquared(c.camera, c.voxelData) >= 600 * 600
                            /\ DistanceToSquared(c.camera, c.voxelData) < 1200 * 1200
         /\ c.lod = CULLED <=> DistanceToSquared(c.camera, c.voxelData) >= 1200 * 1200

\* C29 witness: a WALKABLE voxel exactly 225 units from the camera, off the
\* axes, was classified.
C29_VoxelOnFirstThreshold ==
  \E c \in trace.classified :
    /\ c.voxelData.state = "WALKABLE"
    /\ c.voxelData.y # c.camera.y
    /\ DistanceToSquared(c.camera, c.voxelData) = 225 * 225

\* C30: a frame tick whose drain processed at least one queue entry renders
\* the scene before it returns.
C30_DrainingTickRenders ==
  (trace.op = "animate" /\ trace.applied # <<>>) => trace.rendered

\* C31: a frame tick whose housekeeping removed a live voxel renders the
\* scene or leaves needsRender set for a later tick.
C31_EvictionAsksForRender ==
  (trace.op = "animate" /\ (trace.cleaned # {} \/ trace.limited # {})) =>
    (trace.rendered \/ needsRender)

\* C32 as stated: when performPeriodicCleanup passes its time check, and
\* when enforceVoxelLimit removes voxels, at least CLEANUP_INTERVAL_MS have
\* passed since the same pass did so before.
C32_BothPassesOncePerInterval ==
  /\ \A i \in DOMAIN trace.sweptAfter :
       trace.sweptAfter[i] = <<>> \/ trace.sweptAfter[i][1] >= CLEANUP_INTERVAL_MS
  /\ \A i \in DOMAIN trace.cutAfter :
       trace.cutAfter[i] = <<>> \/ trace.cutAfter[i][1] >= CLEANUP_INTERVAL_MS

\* C32 amended: when performPeriodicCleanup passes its time check at least
\* CLEANUP_INTERVAL_MS have passed since it did so before; enforceVoxelLimit
\* has no time check.
C32_CleanupOncePerInterval ==
  \A i \in DOMAIN trace.sweptAfter :
    trace.sweptAfter[i] = <<>> \/ trace.sweptAfter[i][1] >= CLEANUP_INTERVAL_MS

\* C32 witness: performPeriodicCleanup ran for the second time, in a frame
\* that came half an interval after the frame before it.
C32_SecondCleanupRan ==
  /\ trace.op = "animate"
  /\ trace.sweptAfter = <<<<CLEANUP_INTERVAL_MS>>>>
  /\ sinceCleanup = 0
  /\ trace.sinceCut # <<>>

\* C33: the steps of a frame tick start in this order, each after the one
\* before has returned: user-control detection, follow interpolation, queue
\* drain, staleness pass, ceiling pass, visibility pass, and last the render
\* if the tick renders.
C33_StepsOfATickInOrder ==
  trace.op = "animate" =>
    /\ Len(trace.steps) \in {6, 7}
    /\ SubSeq(trace.steps, 1, 6)
         = <<"detectUserCameraControl", "follow", "processBatchedVoxelUpdates",
             "performPeriodicCleanup", "enforceVoxelLimit", "updateChunkVisibility">>
    /\ Len(trace.steps) = 7 => trace.steps[7] = "render"

\* C33 witness: a tick of an engine that follows an agent went through all
\* seven steps.
C33_FullTickWhileFollowing ==
  /\ trace.op = "animate"
  /\ Len(trace.steps) = 7
  /\ isFollowingEnabled
  /\ currentPositionKey # NOKEY
  /\ chunks # <<>>

\* C34: once updateVoxels is called no more, the frame ticks empty
\* voxelUpdateQueue: isProcessingBatch is false whenever a tick starts, a
\* tick that finds entries in the queue applies at least one of them, and a
\* queue that holds entries is empty some ticks later.
C34_TicksEmptyTheQueue ==
  /\ [](~isProcessingBatch)
  /\ []((trace.op = "animate" /\ trace.drainFrom # <<>>) => trace.applied # <<>>)
  /\ (voxelUpdateQueue # <<>>) ~> (voxelUpdateQueue = <<>>)

\* C34 witness: a tick that found two entries and a budget for one of them
\* applied the first and left the second in the queue.
C34_TickLeftAnEntry ==
  /\ trace.op = "animate"
  /\ Len(trace.drainFrom) = 2
  /\ Len(trace.applied) = 1
  /\ Len(voxelUpdateQueue) = 1
  /\ trace.feeds = 2

\* C35: when currentPositionKey is set, the key it names has a live record
\* whose state is CURRENT_POSITION.
C35_TrackedPositionIsLive ==
  currentPositionKey # NOKEY =>
    \E r \in Range(AllInstances(chunks)) :
      r.key = currentPositionKey /\ r.state = "CURRENT_POSITION"

\* C36: while following is enabled and a position is tracked,
\* cameraFollowTarget is at the voxel that was last applied as
\* CURRENT_POSITION, the one currentPositionKey names.
C36_FollowTargetIsTrackedPosition ==
  (isFollowingEnabled /\ currentPositionKey # NOKEY) =>
    cameraFollowTarget = parseKey(currentPositionKey)

\* C37: the frame tick that follows resetCameraToDefault or centerCamera
\* does not set userControlledCamera (no specification this is checked
\* under has a user who moves the camera between the two).
C37_OwnCameraMoveIsNotUserControl ==
  [][(/\ trace.op \in {"resetCameraToDefault", "centerCamera"}
      /\ ~userControlledCamera
      /\ trace'.op = "animate") => ~userControlledCamera']_vars

\* C38: a frame tick in which performPeriodicCleanup ran (the camera stands
\* still during the tick) removed only non-critical voxels farther than
\* CLEANUP_DISTANCE from the camera and left no such voxel live; a tick in
\* which it did not run removed none; every index the buckets handed out is
\* in a live record or in the free list; and CLEANUP_DISTANCE is beyond the
\* last of LOD_DISTANCES, so a voxel that is not culled is not stale.
C38_CleanupRemovesExactlyTheStale ==
  /\ CLEANUP_DISTANCE > LOD_DISTANCES[3]
  /\ trace.op = "animate" =>
       /\ \A r \in trace.cleaned :
            /\ r.state \notin {"CURRENT_POSITION", "CURRENT_TARGET"}
            /\ 3 * (cameraPosition - r.key * FP) * (cameraPosition - r.key * FP)
                 > (CLEANUP_DISTANCE * FP) * (CLEANUP_DISTANCE * FP)
            /\ r.key \notin LiveKeysOf(chunks)
       /\ sinceCleanup = 0 =>
            \A q \in Range(AllInstances(chunks)) :
              \/ q.state \in {"CURRENT_POSITION", "CURRENT_TARGET"}
              \/ 3 * (cameraPosition - q.key * FP) * (cameraPosition - q.key * FP)
                   <= (CLEANUP_DISTANCE * FP) * (CLEANUP_DISTANCE * FP)
       /\ sinceCleanup # 0 => trace.cleaned = {}
       /\ \A c \in DOMAIN chunks : \A state \in VoxelStates : \A lod \in RenderLODs :
            Range(IndicesKnown(chunks[c], state, lod))
              = 0..(chunks[c].nextInstanceIndex[state][lod] - 1)

\* C38 witness: with CLEANUP_DISTANCE between the two voxels, the pass
\* removed the one at the origin and kept its neighbour.
C38_FartherOfTwoRemoved ==
  /\ trace.op = "animate"
  /\ \E r \in trace.cleaned : r.key = 0
  /\ 1 \in LiveKeysOf(chunks)
  /\ \E q \in Range(AllInstances(chunks)) : q.key = 1 /\ q.state = "WALKABLE"

\* C39: a processVoxelUpdate call that finds a live record of the key with
\* the state and the LOD level of the update leaves the chunk as it was:
\* the record with its instance index, the free lists and nextInstanceIndex
\* of every bucket, and the records of the other keys; the key still has
\* that one record.
C39_SameBucketUpdateKeepsSlots ==
  \A mv \in trace.moves :
    (mv.existingInstance.state = mv.state /\ mv.existingInstance.lodLevel = mv.lod) =>
      /\ mv.after = mv.before
      /\ Cardinality(mv.records) = 1
      /\ \A r \in mv.records :
           /\ r.state = mv.existingInstance.state
           /\ r.lodLevel = mv.existingInstance.lodLevel
           /\ r.instanceIndex = mv.existingInstance.instanceIndex

\* C39 witness: a drain re-processed a voxel that had not changed, in a
\* chunk that holds another voxel and a bucket with a free index.
C39_UnchangedVoxelReprocessed ==
  /\ trace.op = "animate"
  /\ \E mv \in trace.moves :
       /\ mv.existingInstance.state = mv.state
       /\ mv.existingInstance.lodLevel = mv.lod
       /\ Len(mv.before.voxelInstances) = 2
       /\ \E state \in VoxelStates : \E lod \in RenderLODs :
            mv.before.availableIndices[state][lod] # <<>>

\* C40: a frame tick draws only if needsRender was set when it began, the
\* follow block moved the camera or the orbit target in it, or the user is
\* interacting, and otherwise skips the draw; needsRender goes from set to
\* clear only in a tick that drew.
C40_DrawOnlyOnDemand ==
  [][/\ (trace'.op = "animate" /\ "render" \in Range(trace'.steps)) =>
          \/ needsRender
          \/ cameraPosition' # cameraPosition
          \/ controlsTarget' # controlsTarget
          \/ isUserInteracting
     /\ (needsRender /\ ~needsRender') =>
          (trace'.op = "animate" /\ "render" \in Range(trace'.steps))]_vars

\* C40 witness: a tick of the engine that tracks the agent went through its
\* steps and skipped the draw.
C40_TickSkippedTheDraw ==
  /\ trace.op = "animate"
  /\ currentPositionKey # NOKEY
  /\ "updateChunkVisibility" \in Range(trace.steps)
  /\ "render" \notin Range(trace.steps)
  /\ ~needsRender

====
